---- MODULE Spec2Model ----
(***************************************************************************)
(* Model of the invisible-watermark engine of aigc_watermark:              *)
(* backend/app/services/invisible_watermark.py, class InvisibleWatermark.  *)
(*                                                                         *)
(* The filesystem is one function from paths to files.  A path is a tuple  *)
(* of strings (directory, name parts); a file is a sequence of chunks: a   *)
(* decoded raster image, undecodable bytes, the trailer marker, a JSON     *)
(* document.  Arithmetic on wavelet coefficients is exact: a one-level     *)
(* Haar approximation coefficient of a 2x2 block is half the sum of its    *)
(* four pixels, so the model carries the block sum (twice the coefficient) *)
(* and scales the comparisons accordingly.  Carriers have even height and  *)
(* width, confidences are in hundredths.                                   *)
(***************************************************************************)
EXTENDS Integers, Sequences, FiniteSets, TLC

(* ---------------- bounds of the model ---------------- *)
\* longest text payload drawn as an input
MaxTextLen == 1
\* height and width of the low-frequency sub-band of the carriers
HalfH == 2
HalfW == 2
\* how many generated identifiers (uuid4) a behaviour may consume
MaxUuids == 3

(* ---------------- program constants ---------------- *)
\* self.alpha
alpha == 100
\* min(max_size, 32) with max_size = 32
MatrixSize == 32
\* the mean-square floor of blind extraction
SignalFloor == 50

Min(a, b) == IF a < b THEN a ELSE b
Max(a, b) == IF a > b THEN a ELSE b

(* ---------------- paths and locators ---------------- *)
UPLOAD_DIR == "uploads"
PROCESSED_DIR == "processed"
STATIC_DIR == "static"

\* os.path.join(dir, filename)
Join(dir, filename) == <<dir>> \o filename
\* image_path + ".metadata"
MetadataPath(p) == p \o <<".metadata">>
\* f"/static/{filename}"
StaticUrl(filename) == <<"/static/">> \o filename
\* url.replace("/static/", "")
StripStatic(url) == IF Len(url) > 0 /\ Head(url) = "/static/" THEN Tail(url) ELSE url
\* the value of metadata.get("watermark_image_url", "")
NoUrl == <<>>

OriginalName(u) == <<"original_watermark_", u, ".png">>
BackupName(u) == <<"backup_watermark_", u, ".png">>
ExtractedName(u) == <<"extracted_watermark_", u, ".png">>
ExtractedWmName(u) == <<"extracted_wm_", u, ".png">>
OutputName(u) == <<u, ".png">>
\* the n-th value uuid.uuid4() returns in a behaviour
UuidNames == <<"u1", "u2", "u3", "u4", "u5", "u6", "u7", "u8", "u9", "u10", "u11", "u12">>
Uuid(n) == UuidNames[n]

(* ---------------- files ---------------- *)
\* os.path.exists(p): the filesystem maps exactly the existing paths to their bytes
Exists(files, p) == p \in DOMAIN files
\* open(p, "w" / "wb").write(data), cv2.imwrite(p, img), shutil.copy2(src, p)
WriteFile(files, p, data) ==
    [q \in DOMAIN files \cup {p} |-> IF q = p THEN data ELSE files[q]]
\* faulty variant of AppendFile that writes nothing
AppendNothing(files, p, data) == files

\* open(p, "ab").write(data): creates the file when it is missing
AppendFile(files, p, data) ==
    WriteFile(files, p, (IF Exists(files, p) THEN files[p] ELSE <<>>) \o data)
\* the file is removed by something outside the engine
RemoveFile(files, p) == [q \in DOMAIN files \ {p} |-> files[q]]

Png(h, w, px) == [t |-> "png", h |-> h, w |-> w, px |-> px]
Garbage == [t |-> "garbage"]
Marker == [t |-> "marker"]

\* cv2.imread: the decoded image, or None
Decodable(files, p) == Exists(files, p) /\ Len(files[p]) > 0 /\ files[p][1].t = "png"
Imread(files, p) == files[p][1]

(* ---------------- JSON ---------------- *)
Quote == "\""
Backslash == "\\"

\* faulty variant of Escape that writes the characters as they are; the text round
\* trip does not survive it
EscapeNothing(s) == s

\* json.dump of a string: quotes and backslashes are escaped
RECURSIVE Escape(_)
Escape(s) ==
    IF s = <<>> THEN <<>>
    ELSE (IF Head(s) \in {Quote, Backslash} THEN <<Backslash, Head(s)>> ELSE <<Head(s)>>)
         \o Escape(Tail(s))

\* a JSON string body is well formed when no quote is bare and no backslash dangles
RECURSIVE WellEscaped(_)
WellEscaped(e) ==
    IF e = <<>> THEN TRUE
    ELSE IF Head(e) = Backslash THEN Len(e) >= 2 /\ WellEscaped(Tail(Tail(e)))
    ELSE Head(e) # Quote /\ WellEscaped(Tail(e))

\* json.load of a string body
RECURSIVE Unescape(_)
Unescape(e) ==
    IF e = <<>> THEN <<>>
    ELSE IF Head(e) = Backslash THEN <<e[2]>> \o Unescape(Tail(Tail(e)))
    ELSE <<Head(e)>> \o Unescape(Tail(e))

StringKeys == {"watermark_text"}

\* json.dump(metadata): one document, every string value escaped
JsonDump(md) ==
    [t |-> "json", closed |-> TRUE,
     fields |-> [k \in DOMAIN md |-> IF k \in StringKeys THEN Escape(md[k]) ELSE md[k]]]

\* json.load / json.loads of the bytes `data`: a dict, or a parse error
JsonParses(data) ==
    /\ Len(data) = 1
    /\ data[1].t = "json"
    /\ data[1].closed
    /\ \A k \in DOMAIN data[1].fields : k \in StringKeys => WellEscaped(data[1].fields[k])
JsonLoad(data) ==
    [k \in DOMAIN data[1].fields |->
        IF k \in StringKeys THEN Unescape(data[1].fields[k]) ELSE data[1].fields[k]]

\* dict.get(key, default)
Get(md, key, default) == IF key \in DOMAIN md THEN md[key] ELSE default

(* ---------------- text payloads ---------------- *)
Alphabet == {"a", Quote}
\* ord() of the characters of the alphabet: their UTF-8 byte
Ord(c) == IF c = Quote THEN 34 ELSE 97
BoundedStrings(n) == UNION {[1..k -> Alphabet] : k \in 0..n}
\* an optional text: <<>> is None, <<s>> is the string s
NoText == <<>>
Some(s) == <<s>>
\* watermark_text.encode('utf-8')
Utf8(s) == [i \in 1..Len(s) |-> Ord(s[i])]

(* ---------------- payload encoder ---------------- *)
\* the smallest and the largest sample of an image
MinPx(img) == CHOOSE v \in {img.px[p] : p \in DOMAIN img.px} :
                 \A p \in DOMAIN img.px : v <= img.px[p]
MaxPx(img) == CHOOSE v \in {img.px[p] : p \in DOMAIN img.px} :
                 \A p \in DOMAIN img.px : v >= img.px[p]

\* cv2.normalize(wm_img, None, 0, 255, NORM_MINMAX): a constant image becomes 0,
\* the scaled sample is rounded to the nearest integer
Normalize(img, v) ==
    LET mn == MinPx(img)
        mx == MaxPx(img)
    IN  IF mx = mn THEN 0
        ELSE (2 * 255 * (v - mn) + (mx - mn)) \div (2 * (mx - mn))

\* cv2.threshold(wm_img, 127, 255, THRESH_BINARY)
Threshold(v) == IF v > 127 THEN 255 ELSE 0

\* cv2.resize(src, (n, n), INTER_NEAREST): the source index of destination index i
Nearest(i, srcLen, n) == Min((i * srcLen) \div n, srcLen - 1)

\* the matrix built from a reference image (rows and columns from 0)
ImageMatrix(img) == [src |-> "image", side |-> MatrixSize, img |-> img]
\* the matrix built from a text: its bytes on the diagonal
TextMatrix(s) == [src |-> "text", side |-> MatrixSize, bytes |-> Utf8(s)]
\* np.zeros((1, 1))
EmptyMatrix == [src |-> "none", side |-> 1]

\* faulty variant of CenterStart that starts the bytes at the first cell; the centred
\* placement of a text rejects it
CenterStartZero(textLen, size) == 0

\* center_start = (size - text_len) // 2 if text_len < size else 0
CenterStart(textLen, size) == IF textLen < size THEN (size - textLen) \div 2 ELSE 0

\* watermark[i, j]
Cell(wm, i, j) ==
    IF wm.src = "image"
    THEN Threshold(Normalize(wm.img,
             wm.img.px[<<Nearest(i, wm.img.h, wm.side), Nearest(j, wm.img.w, wm.side)>>]))
    ELSE IF wm.src = "text"
    THEN LET n == Len(wm.bytes)
             c == CenterStart(n, wm.side)
         IN  IF i = j /\ i >= c /\ i - c < Min(n, wm.side) /\ i < wm.side
             THEN wm.bytes[i - c + 1] ELSE 0
    ELSE 0

\* the single write of a call that fails ("none": every write succeeds)
WriteFailures == {"none", "display", "backup", "image", "sidecar", "trailer"}

\* faulty variant of PayloadKind that prefers the text; the priority rule rejects it
PayloadKindTextFirst(files, watermark_text, watermark_image_path) ==
    IF watermark_text # NoText THEN "text"
    ELSE IF watermark_image_path # <<>> /\ Exists(files, watermark_image_path[1])
            /\ Decodable(files, watermark_image_path[1])
    THEN "image"
    ELSE "none"

\* _prepare_watermark_data(watermark_text, watermark_image_path): u is the uuid4 it
\* draws.  raised: an exception left the function; files: the filesystem it leaves
\* which branch of _prepare_watermark_data encodes the payload: the image when the
\* path is given, exists and decodes (an undecodable one recurses without the path),
\* else the text when it is not None, else nothing
PayloadKind(files, watermark_text, watermark_image_path) ==
    IF watermark_image_path # <<>> /\ Exists(files, watermark_image_path[1])
       /\ Decodable(files, watermark_image_path[1])
    THEN "image"
    ELSE IF watermark_text # NoText THEN "text"
    ELSE "none"

\* faulty variant of NoneMetadata that labels the empty payload as an empty text
NoneMetadataAsText == ("watermark_type" :> "text") @@ ("watermark_text" :> <<>>)

\* the metadata of the branch without a payload
NoneMetadata == ("watermark_type" :> "none")

prepare_watermark_data(files, watermark_text, watermark_image_path, u, fail) ==
    IF PayloadKind(files, watermark_text, watermark_image_path) = "image"
    THEN LET wm_img == Imread(files, watermark_image_path[1])
             original_wm_path == Join(STATIC_DIR, OriginalName(u))
             backup_wm_path == Join(PROCESSED_DIR, BackupName(u))
             \* cv2.imwrite returns False on failure and writes nothing
             f1 == IF fail = "display" THEN files
                   ELSE WriteFile(files, original_wm_path, <<wm_img>>)
             \* shutil.copy2 raises when the source is missing or the write fails
             copyRaises == ~Exists(f1, original_wm_path) \/ fail = "backup"
             f2 == IF copyRaises THEN f1
                   ELSE WriteFile(f1, backup_wm_path, f1[original_wm_path])
         IN  [raised |-> copyRaises, files |-> f2, usedUuid |-> TRUE,
              watermark |-> ImageMatrix(wm_img),
              metadata |-> ("watermark_type" :> "image")
                           @@ ("watermark_image_url" :> StaticUrl(OriginalName(u)))
                           @@ ("backup_image_url" :> StaticUrl(BackupName(u)))
                           @@ ("matrix_size" :> MatrixSize)]
    ELSE IF PayloadKind(files, watermark_text, watermark_image_path) = "text"
    THEN [raised |-> FALSE, files |-> files, usedUuid |-> FALSE,
          watermark |-> TextMatrix(watermark_text[1]),
          metadata |-> ("watermark_type" :> "text")
                       @@ ("watermark_text" :> watermark_text[1])
                       @@ ("text_length" :> Len(Utf8(watermark_text[1])))
                       @@ ("matrix_size" :> MatrixSize)]
    ELSE [raised |-> FALSE, files |-> files, usedUuid |-> FALSE,
          watermark |-> EmptyMatrix,
          metadata |-> NoneMetadata]

(* ---------------- coefficient embedder ---------------- *)
\* twice the LL coefficient of block (bi, bj) of a one-level Haar decomposition
BlockSum(img, bi, bj) ==
    img.px[<<2 * bi, 2 * bj>>] + img.px[<<2 * bi, 2 * bj + 1>>]
    + img.px[<<2 * bi + 1, 2 * bj>>] + img.px[<<2 * bi + 1, 2 * bj + 1>>]

\* ll_band.shape of an image of even height and width
LLHeight(img) == img.h \div 2
LLWidth(img) == img.w \div 2

\* the pairs (side, m) with m < side <= 32 for which the double side * (m / side)
\* is just below m, so that int() gives m - 1
RoundedDown == {<<22, 15>>, <<23, 13>>, <<26, 15>>}
\* int(wm_side * min(1.0, ll_h / wm_side, ll_w / wm_side)) in double arithmetic
ScaledSide(wmSide, ll_h, ll_w) ==
    LET m == Min(ll_h, ll_w)
    IN  IF m >= wmSide THEN wmSide
        ELSE IF <<wmSide, m>> \in RoundedDown THEN m - 1
        ELSE m

\* faulty variant of NewSize that keeps the matrix at its natural size; the fit into
\* the sub-band rejects it
NewSizeUnscaled(wmSide, ll_h, ll_w) == wmSide

\* new_h = new_w = max(1, int(wm_side * scale)): the matrix is square and the scale
\* is one factor for both axes
NewSize(wmSide, ll_h, ll_w) == Max(1, ScaledSide(wmSide, ll_h, ll_w))

\* watermark_resized[i, j]
Resized(wm, n, i, j) ==
    IF n = wm.side THEN Cell(wm, i, j)
    ELSE Cell(wm, Nearest(i, wm.side, n), Nearest(j, wm.side, n))

\* faulty variant of AddValue10 that takes the cap away from the coefficient; the
\* rule that embedding never lowers a coefficient rejects it
AddValue10Lowering(v, blockSum) == 0 - Min(5 * alpha * v, blockSum)

\* ten times add_value = min(effective_alpha * v, original_value * 0.2), with
\* effective_alpha = alpha * 0.5 and original_value = blockSum / 2
AddValue10(v, blockSum) == Min(5 * alpha * v, blockSum)

\* ten times what the embedding loop adds to coefficient (bi, bj)
Added10(img, wm, bi, bj) ==
    LET ll_h == LLHeight(img)
        ll_w == LLWidth(img)
        n == NewSize(wm.side, ll_h, ll_w)
        h_offset == (ll_h - n) \div 2
        w_offset == (ll_w - n) \div 2
        h_end == Min(ll_h, h_offset + n)
        w_end == Min(ll_w, w_offset + n)
        i == bi - h_offset
        j == bj - w_offset
    IN  IF i >= 0 /\ i < n /\ j >= 0 /\ j < n /\ bi < h_end /\ bj < w_end
           /\ Resized(wm, n, i, j) > 0
        THEN AddValue10(Resized(wm, n, i, j), BlockSum(img, bi, bj))
        ELSE 0

\* one pixel after waverec2, np.clip(0, 255) and the 0.85 / 0.15 blend, truncated to
\* uint8: raising a coefficient by d raises the four pixels of its block by d / 2
BlendPixel(p, add10) == (17 * Max(0, Min(20 * 255, 20 * p + add10)) + 60 * p) \div 400

\* watermarked_img after the embedding step
EmbedPixels(img, wm) ==
    Png(img.h, img.w,
        [p \in DOMAIN img.px |->
            BlendPixel(img.px[p], Added10(img, wm, p[1] \div 2, p[2] \div 2))])

\* faulty variant of DecodeFailure in which the reference image was prepared, and
\* its display copy written, before the carrier was read; the decode error rejects it
DecodeFailureAfterCopy(files, n) ==
    [raised |-> TRUE,
     files |-> WriteFile(files, Join(STATIC_DIR, OriginalName(Uuid(n + 1))), <<Garbage>>),
     uuids |-> n + 1, output_path |-> <<>>, encoded |-> "nothing"]

\* cv2.imread gave None for the carrier: the ValueError leaves the call before
\* anything has been prepared or written
DecodeFailure(files, n) ==
    [raised |-> TRUE, files |-> files, uuids |-> n, output_path |-> <<>>,
     encoded |-> "nothing"]

\* embed_watermark(image_path, watermark_text, watermark_image_path, alpha, output_path)
\* called when n identifiers have been generated; output_path <<>> is None.
\* raised: the exception left the call; uuids: the identifiers generated afterwards;
\* encoded: what the payload matrix was built from
embed_watermark(files, image_path, watermark_text, watermark_image_path, output_path, n, fail) ==
    LET watermark_type ==
            IF watermark_image_path # <<>> /\ Exists(files, watermark_image_path[1])
            THEN "image"
            ELSE IF watermark_text # NoText /\ watermark_text[1] # <<>> THEN "text"
            ELSE "unknown"
    IN
    IF ~Decodable(files, image_path)
    THEN DecodeFailure(files, n)
    ELSE
    LET img == Imread(files, image_path)
        prep == prepare_watermark_data(files, watermark_text, watermark_image_path,
                                       Uuid(n + 1), fail)
        n1 == IF prep.usedUuid THEN n + 1 ELSE n
    IN
    IF prep.raised
    THEN [raised |-> TRUE, files |-> prep.files, uuids |-> n1, output_path |-> <<>>,
          encoded |-> "nothing"]
    ELSE
    LET md1 == IF watermark_type = "image" \/ prep.metadata["watermark_type"] = "image"
               THEN ("watermark_type" :> "image") @@ prep.metadata
               ELSE IF watermark_type = "text" \/ prep.metadata["watermark_type"] = "text"
               THEN ("watermark_type" :> "text") @@ prep.metadata
               ELSE prep.metadata
        out == IF output_path = <<>>
               THEN Join(PROCESSED_DIR, OutputName(Uuid(n1 + 1)))
               ELSE output_path[1]
        n2 == IF output_path = <<>> THEN n1 + 1 ELSE n1
        \* cv2.imwrite returns False on failure and writes nothing
        f1 == IF fail = "image" THEN prep.files
              ELSE WriteFile(prep.files, out, <<EmbedPixels(img, prep.watermark)>>)
        md2 == ("algorithm" :> "dwt") @@ ("wavelet" :> "haar") @@ ("level" :> 1)
               @@ ("alpha" :> alpha)
               @@ ("watermark_size" :> <<prep.watermark.side, prep.watermark.side>>)
               @@ ("timestamp" :> "now") @@ md1
        f2 == WriteFile(f1, MetadataPath(out), <<JsonDump(md2)>>)
        \* the trailer append is the only write inside its own try / except
        f3 == IF fail = "trailer" THEN f2
              ELSE AppendFile(f2, out, <<Marker, JsonDump(md2)>>)
    IN  IF fail = "sidecar"
        THEN [raised |-> TRUE, files |-> f1, uuids |-> n2, output_path |-> <<>>,
              encoded |-> prep.watermark.src]
        ELSE [raised |-> FALSE, files |-> f3, uuids |-> n2, output_path |-> <<out>>,
              encoded |-> prep.watermark.src]

\* faulty variant of embed_watermark_with in which the argument (in tenths) is what
\* the sidecar records as the strength; the rule that the argument has no effect
\* rejects it
embed_watermark_alpha_recorded(files, image_path, watermark_text, watermark_image_path, alphaArg, output_path, n, fail) ==
    LET r == embed_watermark(files, image_path, watermark_text, watermark_image_path,
                             output_path, n, fail)
    IN  IF r.raised THEN r
        ELSE LET side == MetadataPath(r.output_path[1])
                 doc == r.files[side][1]
             IN  [r EXCEPT !.files = WriteFile(r.files, side,
                     <<[doc EXCEPT !.fields = ("alpha" :> alphaArg) @@ doc.fields]>>)]

\* embed_watermark with its alpha argument (in tenths): the body never reads it, the
\* strength applied and recorded is self.alpha
embed_watermark_with(files, image_path, watermark_text, watermark_image_path, alphaArg, output_path, n, fail) ==
    embed_watermark(files, image_path, watermark_text, watermark_image_path,
                    output_path, n, fail)

\* embed_dct_watermark passes its five arguments on to embed_watermark
embed_dct_watermark(files, image_path, watermark_text, watermark_image_path, alphaArg, output_path, n, fail) ==
    embed_watermark_with(files, image_path, watermark_text, watermark_image_path,
                         alphaArg, output_path, n, fail)

(* ---------------- signal-domain extractor ---------------- *)
\* wm_size = min(32, ll_band.shape[0] // 2, ll_band.shape[1] // 2)
WmSize(img) == Min(32, Min(LLHeight(img) \div 2, LLWidth(img) \div 2))

\* the cells (i, j) of the read window
Window(img) == (0 .. WmSize(img) - 1) \X (0 .. WmSize(img) - 1)

\* extracted_wm[i, j]: zero unless the coefficient exceeds alpha / 2, else
\* max(0, min(255, int(coefficient / alpha)))
ExtractedCell(img, i, j) ==
    LET h_offset == (LLHeight(img) - WmSize(img)) \div 2
        w_offset == (LLWidth(img) - WmSize(img)) \div 2
    IN  IF h_offset + i < LLHeight(img) /\ w_offset + j < LLWidth(img)
        THEN LET s2 == BlockSum(img, h_offset + i, w_offset + j)
             IN  IF s2 > alpha THEN Max(0, Min(255, s2 \div (2 * alpha))) ELSE 0
        ELSE 0

\* np.count_nonzero(extracted_wm)
NonZeroPixels(img) ==
    Cardinality({c \in Window(img) : ExtractedCell(img, c[1], c[2]) > 0})

\* one element of np.square(extracted_wm): the array is uint8, so squares wrap
Square8(v) == (v * v) % 256

\* signal_power = np.sum(np.square(extracted_wm))
RECURSIVE SumSquares(_, _)
SumSquares(img, cells) ==
    IF cells = {} THEN 0
    ELSE LET c == CHOOSE x \in cells : TRUE
         IN  Square8(ExtractedCell(img, c[1], c[2])) + SumSquares(img, cells \ {c})
SignalPower(img) == SumSquares(img, Window(img))

\* faulty variant of EnoughSignal that accepts any signal at all
EnoughSignalNoFloor(img) == SignalPower(img) >= 0

\* non_zero_pixels > wm_size * wm_size * 0.25
EnoughNonZero(img) == 4 * NonZeroPixels(img) > WmSize(img) * WmSize(img)
\* average_signal = signal_power / total_pixels > 50
EnoughSignal(img) == SignalPower(img) > SignalFloor * WmSize(img) * WmSize(img)
\* the detection decision of the blind step of extract_watermark
BlindDetects(img) == EnoughNonZero(img) /\ EnoughSignal(img)
\* min(0.8, non_zero_pixels / (wm_size * wm_size)) in hundredths, rounded down
BlindConfidence(img) ==
    Min(80, (100 * NonZeroPixels(img)) \div (WmSize(img) * WmSize(img)))

(* ---------------- recovery orchestrator ---------------- *)
\* the lookup of the display copies a record references: the original if its file is
\* in the static directory, else the backup, copied from the processed directory
\* into the static directory when it is only there
ResolveCopies(files, original_url, backup_url) ==
    IF original_url = NoUrl THEN [which |-> "none", files |-> files]
    ELSE IF Exists(files, Join(STATIC_DIR, StripStatic(original_url)))
    THEN [which |-> "original", files |-> files]
    ELSE IF backup_url = NoUrl THEN [which |-> "none", files |-> files]
    ELSE LET backup_static_path == Join(STATIC_DIR, StripStatic(backup_url))
             backup_processed_path == Join(PROCESSED_DIR, StripStatic(backup_url))
             f1 == IF ~Exists(files, backup_static_path)
                      /\ Exists(files, backup_processed_path)
                   THEN WriteFile(files, backup_static_path, files[backup_processed_path])
                   ELSE files
         IN  IF Exists(f1, backup_static_path)
             THEN [which |-> "backup", files |-> f1]
             ELSE [which |-> "none", files |-> f1]

\* the result dictionary extract_watermark starts from (None is "None" / <<>>)
InitialResult ==
    [success |-> FALSE, detected |-> FALSE, watermark_text |-> <<>>,
     watermark_type |-> "None", watermark_image_url |-> NoUrl, confidence |-> 0,
     message |-> ""]

\* faulty variant of SourceConfidence with the confidences of the two sources swapped
SourceConfidenceSwapped(source, which) ==
    IF source = "sidecar" THEN (IF which = "backup" THEN 90 ELSE 95)
    ELSE (IF which = "backup" THEN 95 ELSE 99)

\* the confidence of a detection from a record of type image or text: by source
\* ("sidecar", "trailer") and by what resolved ("original", "backup", "text")
SourceConfidence(source, which) ==
    IF source = "sidecar" THEN (IF which = "backup" THEN 95 ELSE 99)
    ELSE (IF which = "backup" THEN 90 ELSE 95)

\* a metadata record of type image or text, looked up with the confidences of its
\* source.  done: the step returned `result`; otherwise `result` is carried on
MetadataStep(files, result, md, source) ==
    IF Get(md, "watermark_type", "None") = "image"
    THEN LET r == ResolveCopies(files, Get(md, "watermark_image_url", NoUrl),
                                Get(md, "backup_image_url", NoUrl))
             typed == [result EXCEPT !.watermark_type = "image"]
         IN  IF r.which = "original"
             THEN [done |-> TRUE, files |-> r.files,
                   result |-> [typed EXCEPT
                       !.watermark_image_url = Get(md, "watermark_image_url", NoUrl),
                       !.detected = TRUE, !.success = TRUE,
                       !.confidence = SourceConfidence(source, "original"),
                       !.message = "original image found"]]
             ELSE IF r.which = "backup"
             THEN [done |-> TRUE, files |-> r.files,
                   result |-> [typed EXCEPT
                       !.watermark_image_url = Get(md, "backup_image_url", NoUrl),
                       !.detected = TRUE, !.success = TRUE,
                       !.confidence = SourceConfidence(source, "backup"),
                       !.message = "backup image found"]]
             ELSE [done |-> FALSE, files |-> r.files, result |-> typed]
    ELSE IF Get(md, "watermark_type", "None") = "text"
    THEN [done |-> TRUE, files |-> files,
          result |-> [result EXCEPT
              !.watermark_text = Get(md, "watermark_text", <<>>),
              !.watermark_type = "text", !.detected = TRUE, !.success = TRUE,
              !.confidence = SourceConfidence(source, "text")]]
    ELSE [done |-> FALSE, files |-> files, result |-> result]

\* faulty variant of SidecarStep that never reads the sidecar
SidecarStepSkipped(files, image_path, result) ==
    [done |-> FALSE, files |-> files, result |-> result]

\* step 1 of extract_watermark: the sidecar file
SidecarStep(files, image_path, result) ==
    LET metadata_path == MetadataPath(image_path)
    IN  IF Exists(files, metadata_path) /\ JsonParses(files[metadata_path])
        THEN MetadataStep(files, result, JsonLoad(files[metadata_path]), "sidecar")
        ELSE [done |-> FALSE, files |-> files, result |-> result]

\* content.find(marker): the index of the first marker chunk, 0 when there is none
RECURSIVE FindMarker(_, _)
FindMarker(data, from) ==
    IF from > Len(data) THEN 0
    ELSE IF data[from].t = "marker" THEN from
    ELSE FindMarker(data, from + 1)

\* the branch of the trailer step for a record whose type is neither image nor text
UnknownTypeStep(files, result, md) ==
    IF "watermark_image_url" \in DOMAIN md
    THEN LET r1 == [result EXCEPT !.watermark_type = "image",
                                  !.watermark_image_url = md["watermark_image_url"]]
         IN  IF Exists(files, Join(STATIC_DIR, StripStatic(md["watermark_image_url"])))
             THEN [done |-> TRUE, files |-> files,
                   result |-> [r1 EXCEPT !.detected = TRUE, !.success = TRUE,
                                         !.confidence = 90, !.message = "image found"]]
             ELSE [done |-> FALSE, files |-> files, result |-> r1]
    ELSE IF "watermark_text" \in DOMAIN md /\ md["watermark_text"] # <<>>
    THEN [done |-> TRUE, files |-> files,
          result |-> [result EXCEPT !.watermark_text = md["watermark_text"],
                                    !.watermark_type = "text", !.detected = TRUE,
                                    !.success = TRUE, !.confidence = 90]]
    ELSE [done |-> FALSE, files |-> files, result |-> result]

\* step 2 of extract_watermark: the trailer after the marker; a byte position > 0 is
\* a marker chunk that is not the first chunk of the file
TrailerStep(files, image_path, result) ==
    IF ~Exists(files, image_path)
    THEN [done |-> FALSE, files |-> files, result |-> result]
    ELSE LET content == files[image_path]
             pos == FindMarker(content, 1)
             rest == SubSeq(content, pos + 1, Len(content))
         IN  IF pos > 1 /\ JsonParses(rest)
             THEN LET md == JsonLoad(rest)
                  IN  IF Get(md, "watermark_type", "None") \in {"image", "text"}
                      THEN MetadataStep(files, result, md, "trailer")
                      ELSE UnknownTypeStep(files, result, md)
             ELSE [done |-> FALSE, files |-> files, result |-> result]

\* step 3 of extract_watermark: blind extraction from the low-frequency sub-band;
\* a detection saves a viewable image under a fresh identifier u in both directories
BlindStep(files, image_path, result, u) ==
    IF ~Decodable(files, image_path)
    THEN [files |-> files, usedUuid |-> FALSE,
          result |-> [result EXCEPT !.message = "cannot read image"]]
    ELSE LET img == Imread(files, image_path)
         IN  IF BlindDetects(img)
             THEN LET view == <<[t |-> "png", h |-> 266, w |-> 266, px |-> <<>>]>>
                      f1 == WriteFile(files, Join(PROCESSED_DIR, ExtractedName(u)), view)
                      f2 == WriteFile(f1, Join(STATIC_DIR, ExtractedName(u)), view)
                  IN  [files |-> f2, usedUuid |-> TRUE,
                       result |-> [result EXCEPT
                           !.watermark_image_url = StaticUrl(ExtractedName(u)),
                           !.watermark_type = "image", !.detected = TRUE,
                           !.success = TRUE, !.confidence = BlindConfidence(img)]]
             ELSE [files |-> files, usedUuid |-> FALSE,
                   result |-> [result EXCEPT !.detected = FALSE, !.success = TRUE,
                                             !.message = "no watermark detected"]]

\* extract_watermark(image_path), called when n identifiers have been generated.
\* consulted: the recovery sources the call went through, in order
extract_watermark(files, image_path, n) ==
    LET s1 == SidecarStep(files, image_path, InitialResult)
    IN  IF s1.done
        THEN [result |-> s1.result, files |-> s1.files, uuids |-> n,
              consulted |-> <<"sidecar">>]
        ELSE
        LET s2 == TrailerStep(s1.files, image_path, s1.result)
        IN  IF s2.done
            THEN [result |-> s2.result, files |-> s2.files, uuids |-> n,
                  consulted |-> <<"sidecar", "trailer">>]
            ELSE
            LET s3 == BlindStep(s2.files, image_path, s2.result, Uuid(n + 1))
            IN  [result |-> s3.result, files |-> s3.files,
                 uuids |-> IF s3.usedUuid THEN n + 1 ELSE n,
                 consulted |-> <<"sidecar", "trailer", "blind">>]

(* ---------------- extract_watermark_image ---------------- *)
\* the result dictionary extract_watermark_image starts from
InitialImageResult ==
    [success |-> FALSE, detected |-> FALSE, watermark_type |-> "image",
     watermark_image_url |-> NoUrl, confidence |-> 0, message |-> ""]

\* the display-copy lookup of extract_watermark_image on one record, whatever its type
ImageLookup(files, result, md, confOriginal, confBackup) ==
    LET original_url == Get(md, "watermark_image_url", NoUrl)
        backup_url == Get(md, "backup_image_url", NoUrl)
    IN  IF original_url # NoUrl /\ Exists(files, Join(STATIC_DIR, StripStatic(original_url)))
        THEN [done |-> TRUE, files |-> files,
              result |-> [result EXCEPT !.detected = TRUE, !.success = TRUE,
                              !.watermark_image_url = original_url,
                              !.confidence = confOriginal,
                              !.message = "original image found"]]
        ELSE IF backup_url # NoUrl
        THEN LET backup_static_path == Join(STATIC_DIR, StripStatic(backup_url))
                 backup_processed_path == Join(PROCESSED_DIR, StripStatic(backup_url))
                 f1 == IF ~Exists(files, backup_static_path)
                          /\ Exists(files, backup_processed_path)
                       THEN WriteFile(files, backup_static_path,
                                      files[backup_processed_path])
                       ELSE files
             IN  IF Exists(f1, backup_static_path)
                 THEN [done |-> TRUE, files |-> f1,
                       result |-> [result EXCEPT !.detected = TRUE, !.success = TRUE,
                                       !.watermark_image_url = backup_url,
                                       !.confidence = confBackup,
                                       !.message = "backup image found"]]
                 ELSE [done |-> FALSE, files |-> f1, result |-> result]
        ELSE [done |-> FALSE, files |-> files, result |-> result]

\* the metadata part of extract_watermark_image, one try block: a sidecar that does
\* not parse raises, which skips the trailer; the trailer counts from position 0 on
ImageMetadataStep(files, image_path, result) ==
    LET metadata_path == MetadataPath(image_path)
        skip == [done |-> FALSE, files |-> files, result |-> result]
        s1 == IF Exists(files, metadata_path)
              THEN ImageLookup(files, result, JsonLoad(files[metadata_path]), 98, 95)
              ELSE skip
    IN  IF Exists(files, metadata_path) /\ ~JsonParses(files[metadata_path]) THEN skip
        ELSE IF s1.done THEN s1
        ELSE IF ~Exists(files, image_path) THEN [s1 EXCEPT !.done = FALSE]
        ELSE LET content == s1.files[image_path]
                 pos == FindMarker(content, 1)
                 rest == SubSeq(content, pos + 1, Len(content))
             IN  IF pos = 0 THEN s1
                 ELSE IF ~JsonParses(rest) THEN s1
                 ELSE ImageLookup(s1.files, s1.result, JsonLoad(rest), 95, 90)

\* non_zero_pixels < wm_size * wm_size * 0.05
TooFewPixels(img) == 20 * NonZeroPixels(img) < WmSize(img) * WmSize(img)

\* extract_watermark_image(image_path), called when n identifiers have been generated
extract_watermark_image(files, image_path, n) ==
    LET s1 == ImageMetadataStep(files, image_path, InitialImageResult)
    IN  IF s1.done
        THEN [result |-> s1.result, files |-> s1.files, uuids |-> n]
        ELSE IF ~Decodable(s1.files, image_path)
        THEN [result |-> [s1.result EXCEPT !.message = "cannot read image"],
              files |-> s1.files, uuids |-> n]
        ELSE LET img == Imread(s1.files, image_path)
                 u == Uuid(n + 1)
                 view == <<[t |-> "png", h |-> 256, w |-> 256, px |-> <<>>]>>
                 f1 == WriteFile(s1.files, Join(PROCESSED_DIR, ExtractedWmName(u)), view)
                 f2 == WriteFile(f1, Join(STATIC_DIR, ExtractedWmName(u)), view)
             IN  IF TooFewPixels(img)
                 THEN [result |-> [s1.result EXCEPT !.message = "too few pixels"],
                       files |-> s1.files, uuids |-> n]
                 ELSE IF WmSize(img) = 0
                 \* cv2.resize of an empty array raises: the outer except returns
                 THEN [result |-> [s1.result EXCEPT !.message = "extraction failed"],
                       files |-> s1.files, uuids |-> n]
                 ELSE [result |-> [s1.result EXCEPT
                           !.detected = TRUE, !.success = TRUE,
                           !.watermark_type = "image",
                           !.watermark_image_url = StaticUrl(ExtractedWmName(u)),
                           !.confidence = 70,
                           !.message = "extracted from coefficients"],
                       files |-> f2, uuids |-> n + 1]

(* ---------------- the recovery endpoint ---------------- *)
\* the answer of the endpoint when it builds one itself
ApiResponse(detected, message, watermark_type, watermark_image_url, confidence) ==
    [success |-> TRUE, detected |-> detected, message |-> message,
     watermark_text |-> <<>>, watermark_type |-> watermark_type,
     watermark_image_url |-> watermark_image_url, confidence |-> confidence]

\* the files of the processed directory that os.listdir yields and whose name starts
\* with backup_watermark_ and ends with .png
BackupCandidates(files) ==
    {p \in DOMAIN files : /\ Len(p) = 4
                          /\ p[1] = PROCESSED_DIR
                          /\ p[2] = "backup_watermark_"
                          /\ p[4] = ".png"}

\* "original_watermark_" in watermark_image_url
NamesOriginal(url) == Len(url) >= 3 /\ url[2] = "original_watermark_"

\* the name under which the endpoint saves the upload, when n identifiers have been
\* generated
UploadPath(n) == Join(UPLOAD_DIR, <<Uuid(n + 1), "_", "suspect.png">>)

\* faulty variant of extract_invisible_watermark that always returns the result of
\* extract_watermark; the second attempt for an empty text rejects it
extract_invisible_watermark_once(x, y, image_path, pick) ==
    [response |-> x.result, files |-> RemoveFile(x.files, image_path),
     uuids |-> x.uuids, second |-> FALSE]

\* POST /extract_invisible_watermark after the upload was saved at image_path:
\* x is what extract_watermark(image_path) did, y what extract_watermark_image does
\* after it when the endpoint calls it.  pick: the candidate os.listdir yields first,
\* <<>> when there is none.  The saved upload is removed again only on the path that
\* returns the engine's own result.  second: extract_watermark_image was called
extract_invisible_watermark(x, y, image_path, pick) ==
    LET result == x.result
        url == result.watermark_image_url
        engines == [response |-> result, files |-> RemoveFile(x.files, image_path),
                    uuids |-> x.uuids, second |-> FALSE]
    IN  IF ~(result.success /\ result.detected) THEN engines
        ELSE IF result.watermark_type = "image"
        THEN IF url = NoUrl
             THEN [response |-> ApiResponse(FALSE, "no watermark", "None", NoUrl, 0),
                   files |-> x.files, uuids |-> x.uuids, second |-> FALSE]
             ELSE IF ~NamesOriginal(url) THEN engines
             ELSE LET backup_filename == BackupName(url[3])
                      backup_path == Join(PROCESSED_DIR, backup_filename)
                  IN  IF Exists(x.files, backup_path)
                      THEN [response |-> ApiResponse(TRUE, "image found", "image",
                                             StaticUrl(backup_filename), result.confidence),
                            files |-> WriteFile(x.files, Join(STATIC_DIR, backup_filename),
                                                x.files[backup_path]),
                            uuids |-> x.uuids, second |-> FALSE]
                      ELSE IF pick # <<>>
                      THEN [response |-> ApiResponse(TRUE, "backup recovered", "image",
                                             StaticUrl(Tail(pick)), 90),
                            files |-> WriteFile(x.files, Join(STATIC_DIR, Tail(pick)),
                                                x.files[pick]),
                            uuids |-> x.uuids, second |-> FALSE]
                      ELSE engines
        ELSE IF result.watermark_type = "text" /\ result.watermark_text = <<>>
        THEN LET img_result == y.result
             IN  IF /\ img_result.success
                    /\ img_result.detected
                    /\ img_result.watermark_image_url # NoUrl
                    /\ Exists(y.files, Join(STATIC_DIR,
                                            StripStatic(img_result.watermark_image_url)))
                 THEN [response |-> ApiResponse(TRUE, "hidden image found", "image",
                                        img_result.watermark_image_url,
                                        img_result.confidence),
                       files |-> y.files, uuids |-> y.uuids, second |-> TRUE]
                 ELSE [response |-> ApiResponse(TRUE, "empty text", "text", NoUrl,
                                                result.confidence),
                       files |-> y.files, uuids |-> y.uuids, second |-> TRUE]
        ELSE engines

(* ---------------- the inputs of the model ---------------- *)
\* an image whose samples (the blue channel of a carrier, the gray of a reference
\* image) all equal v
Uniform(h, w, v) == Png(h, w, [p \in (0 .. h - 1) \X (0 .. w - 1) |-> v])

\* the uploaded images: three decodable ones and one that is no image
DarkCarrier == <<UPLOAD_DIR, "dark.png">>
MidCarrier == <<UPLOAD_DIR, "mid.png">>
BrightCarrier == <<UPLOAD_DIR, "bright.png">>
BrokenCarrier == <<UPLOAD_DIR, "broken.png">>
Uploads == {DarkCarrier, MidCarrier, BrightCarrier, BrokenCarrier}
\* image_path of the embed call
Carriers == {MidCarrier, BrokenCarrier}

\* the uploaded reference images: a logo, one that is no image, and a path at which
\* there is no file
LogoImage == <<UPLOAD_DIR, "watermark_logo.png">>
BrokenImage == <<UPLOAD_DIR, "watermark_broken.png">>
MissingImage == <<UPLOAD_DIR, "watermark_missing.png">>
\* a second reference image, of another owner
SealImage == <<UPLOAD_DIR, "watermark_seal.png">>
\* watermark_image_path: None or one of the paths
ImagePathArgs == {<<>>, <<LogoImage>>, <<BrokenImage>>, <<MissingImage>>}

\* suspect images that carry a trailer this engine did not write: a record without
\* a type that has a text, and one that names a display copy
ForeignText == <<UPLOAD_DIR, "foreign_text.png">>
ForeignUrl == <<UPLOAD_DIR, "foreign_url.png">>

\* watermark_text: None or a string
TextArgs == {NoText} \cup {Some(s) : s \in BoundedStrings(MaxTextLen)}

\* the upload directory: it is the same in every state, nothing in the model writes
\* to it
UploadedFiles ==
    (DarkCarrier :> <<Uniform(2 * HalfH, 2 * HalfW, 0)>>)
    @@ (MidCarrier :> <<Uniform(2 * HalfH, 2 * HalfW, 100)>>)
    @@ (BrightCarrier :> <<Uniform(2 * HalfH, 2 * HalfW, 255)>>)
    @@ (BrokenCarrier :> <<Garbage>>)
    @@ (LogoImage :> <<Png(2, 2, [p \in (0 .. 1) \X (0 .. 1) |->
                                     IF p = <<0, 0>> THEN 30 ELSE 220])>>)
    @@ (BrokenImage :> <<Garbage>>)
    @@ (SealImage :> <<Png(2, 2, [p \in (0 .. 1) \X (0 .. 1) |->
                                     IF p = <<1, 1>> THEN 10 ELSE 240])>>)
    @@ (ForeignText :> <<Uniform(2 * HalfH, 2 * HalfW, 0), Marker,
                         JsonDump("watermark_text" :> <<"a">>)>>)
    @@ (ForeignUrl :> <<Uniform(2 * HalfH, 2 * HalfW, 0), Marker,
                        JsonDump("watermark_image_url" :> StaticUrl(OriginalName(Uuid(1))))>>)

(* ---------------- the state machine ---------------- *)
VARIABLES
    files,   \* path -> bytes of every file of the processed and static directories
    uuids,   \* how many identifiers uuid.uuid4() has generated
    embed,   \* the embed_watermark call of the behaviour: arguments and outcome
    last     \* the last recovery call: operation, path and outcome

vars == <<files, uuids, embed, last>>

NoEmbed == [called |-> FALSE]
NoCall == [op |-> "none"]

\* the whole filesystem
Disk == files @@ UploadedFiles
\* the part of a filesystem that is not the upload directory
Written(fs) == [p \in DOMAIN fs \ DOMAIN UploadedFiles |-> fs[p]]

Init ==
    /\ files = <<>>
    /\ uuids = 0
    /\ embed = NoEmbed
    /\ last = NoCall

\* the paths embed_watermark generates for its output
OutputPaths == {Join(PROCESSED_DIR, OutputName(Uuid(n))) : n \in 1 .. MaxUuids}
\* an image uploaded for recovery that no embed call has produced
SuspectUpload == <<UPLOAD_DIR, "suspect.png">>
\* the images a recovery call is run on
SuspectPaths == Uploads \cup {ForeignText, ForeignUrl, SuspectUpload} \cup OutputPaths

\* a failing write is a write the call attempts
Attempted(fail, watermark_image_path) ==
    fail \in {"display", "backup"} =>
        watermark_image_path # <<>> /\ Decodable(Disk, watermark_image_path[1])

\* one call of embed_watermark with a generated output path
Embed(image_path, watermark_text, watermark_image_path, fail) ==
    /\ Attempted(fail, watermark_image_path)
    /\ LET r == embed_watermark(Disk, image_path, watermark_text,
                                watermark_image_path, <<>>, uuids, fail)
       IN  /\ r.uuids <= MaxUuids
           /\ files' = Written(r.files)
           /\ uuids' = r.uuids
           /\ embed' = [called |-> TRUE, image_path |-> image_path,
                        watermark_text |-> watermark_text,
                        watermark_image_path |-> watermark_image_path,
                        fail |-> fail, raised |-> r.raised,
                        output_path |-> r.output_path, encoded |-> r.encoded]
    /\ last' = NoCall

\* one call of extract_watermark
ExtractWatermark(image_path) ==
    /\ image_path \in SuspectPaths
    /\ Exists(Disk, image_path)
    /\ LET r == extract_watermark(Disk, image_path, uuids)
       IN  /\ r.uuids <= MaxUuids
           /\ files' = Written(r.files)
           /\ uuids' = r.uuids
           /\ last' = [op |-> "extract_watermark", image_path |-> image_path,
                       result |-> r.result,
                       consulted |-> r.consulted]
    /\ UNCHANGED embed

\* one call of extract_watermark_image
ExtractWatermarkImage(image_path) ==
    /\ image_path \in SuspectPaths
    /\ Exists(Disk, image_path)
    /\ LET r == extract_watermark_image(Disk, image_path, uuids)
       IN  /\ r.uuids <= MaxUuids
           /\ files' = Written(r.files)
           /\ uuids' = r.uuids
           /\ last' = [op |-> "extract_watermark_image", image_path |-> image_path,
                       result |-> r.result]
    /\ UNCHANGED embed

(* the environment: what happens to the redundancy locations between calls *)
IsSidecar(p) == \E q \in OutputPaths : p = MetadataPath(q)
IsDisplayCopy(p) ==
    \E n \in 1 .. MaxUuids :
        p \in {Join(STATIC_DIR, OriginalName(Uuid(n))),
               Join(STATIC_DIR, BackupName(Uuid(n))),
               Join(PROCESSED_DIR, BackupName(Uuid(n)))}

\* a sidecar or a display copy is deleted
DeleteFile(p) ==
    /\ Exists(files, p)
    /\ IsSidecar(p) \/ IsDisplayCopy(p)
    /\ files' = RemoveFile(files, p)
    /\ last' = NoCall
    /\ UNCHANGED <<uuids, embed>>

\* a JSON document cut short
Truncated(doc) == [doc EXCEPT !.closed = FALSE]

\* a sidecar is cut short, so that it no longer parses
TruncateSidecar(p) ==
    /\ Exists(files, p)
    /\ IsSidecar(p)
    /\ JsonParses(files[p])
    /\ files' = WriteFile(files, p, <<Truncated(files[p][1])>>)
    /\ last' = NoCall
    /\ UNCHANGED <<uuids, embed>>

\* the output image is saved again by an image tool: the trailer is gone
StripTrailer(p) ==
    /\ p \in OutputPaths
    /\ Decodable(files, p)
    /\ Len(files[p]) > 1
    /\ files' = WriteFile(files, p, <<files[p][1]>>)
    /\ last' = NoCall
    /\ UNCHANGED <<uuids, embed>>

\* the output image loses its last bytes: the trailer no longer parses
TruncateTrailer(p) ==
    /\ p \in OutputPaths
    /\ Exists(files, p)
    /\ FindMarker(files[p], 1) > 0
    /\ JsonParses(SubSeq(files[p], FindMarker(files[p], 1) + 1, Len(files[p])))
    /\ files' = WriteFile(files, p,
                   [i \in 1 .. Len(files[p]) |->
                       IF i = Len(files[p]) THEN Truncated(files[p][i]) ELSE files[p][i]])
    /\ last' = NoCall
    /\ UNCHANGED <<uuids, embed>>

\* the caller has taken the result of the last recovery call; calls follow one
\* another, so every other step starts from here
Return ==
    /\ last # NoCall
    /\ last' = NoCall
    /\ UNCHANGED <<files, uuids, embed>>

Next ==
    \/ /\ last = NoCall
       /\ ~embed.called
       /\ \E c \in Carriers, t \in TextArgs, w \in ImagePathArgs, f \in WriteFailures :
              Embed(c, t, w, f)
    \/ last = NoCall /\ \E p \in SuspectPaths : ExtractWatermark(p)
    \/ last = NoCall /\ \E p \in SuspectPaths : ExtractWatermarkImage(p)
    \/ last = NoCall /\ \E p \in DOMAIN files : DeleteFile(p)
    \/ last = NoCall /\ \E p \in DOMAIN files : TruncateSidecar(p)
    \/ last = NoCall /\ \E p \in OutputPaths : StripTrailer(p)
    \/ last = NoCall /\ \E p \in OutputPaths : TruncateTrailer(p)
    \/ Return

Spec == Init /\ [][Next]_vars

(* ---------------- requests to the recovery endpoint ---------------- *)
\* one request to the recovery endpoint: the client uploads the bytes of p; at most
\* maxUuids identifiers are generated in a behaviour
EndpointCall(p, pick, maxUuids) ==
    /\ Exists(Disk, p)
    /\ pick \in (IF BackupCandidates(Disk) = {} THEN {<<>>} ELSE BackupCandidates(Disk))
    /\ uuids < maxUuids
    /\ \E saved \in {WriteFile(Disk, UploadPath(uuids), Disk[p])} :
       \E x \in {extract_watermark(saved, UploadPath(uuids), uuids + 1)} :
       \E y \in {extract_watermark_image(x.files, UploadPath(uuids), x.uuids)} :
       \E r \in {extract_invisible_watermark(x, y, UploadPath(uuids), pick)} :
           /\ r.uuids <= maxUuids
           /\ files' = Written(r.files)
           /\ uuids' = r.uuids
           /\ last' = [op |-> "extract_invisible_watermark", image_path |-> p,
                       result |-> r.response, first |-> x.result,
                       second |-> IF r.second THEN <<y.result>> ELSE <<>>]
    /\ UNCHANGED embed

\* a request with one of the suspect images
ExtractEndpoint(p, pick) == p \in SuspectPaths /\ EndpointCall(p, pick, MaxUuids)

\* image_path of the embed call behind the endpoints
ApiCarriers == {DarkCarrier, MidCarrier, BrokenCarrier}

\* embeds, deletions of sidecars and display copies, and requests to the endpoint
NextApi ==
    \/ /\ last = NoCall
       /\ ~embed.called
       /\ \E c \in ApiCarriers, t \in TextArgs, w \in ImagePathArgs, f \in WriteFailures :
              Embed(c, t, w, f)
    \/ last = NoCall /\ \E p \in DOMAIN files : DeleteFile(p)
    \/ last = NoCall /\ \E p \in OutputPaths : StripTrailer(p)
    \/ /\ last = NoCall
       /\ \E p \in SuspectPaths, pick \in {<<>>} \cup BackupCandidates(Disk) :
              ExtractEndpoint(p, pick)
    \/ Return

SpecApi == Init /\ [][NextApi]_vars

(* ---------------- two owners behind the endpoints ---------------- *)
\* the identifiers of two embeds with a reference image and one request
MaxTwoUuids == 6
\* the outputs of the embeds
TwoOutputs == {Join(PROCESSED_DIR, OutputName(Uuid(n))) : n \in 1 .. MaxTwoUuids}
\* a display copy or a backup copy of a reference image
IsCopy(p) == Len(p) = 4 /\ p[2] \in {"original_watermark_", "backup_watermark_"}

\* an embed of a reference image into the grey carrier, every write succeeding; there
\* are two of them in a behaviour, with different reference images
EmbedReference(watermark_image_path) ==
    /\ Cardinality({p \in TwoOutputs : Exists(files, p)}) < 2
    /\ embed.called => embed.watermark_image_path # watermark_image_path
    /\ \E r \in {embed_watermark(Disk, MidCarrier, NoText, watermark_image_path, <<>>,
                                 uuids, "none")} :
           /\ r.uuids <= MaxTwoUuids
           /\ files' = Written(r.files)
           /\ uuids' = r.uuids
           /\ embed' = [called |-> TRUE, image_path |-> MidCarrier,
                        watermark_text |-> NoText,
                        watermark_image_path |-> watermark_image_path,
                        fail |-> "none", raised |-> r.raised,
                        output_path |-> r.output_path, encoded |-> r.encoded]
    /\ last' = NoCall

\* a display copy or a backup copy is deleted
DeleteCopy(p) ==
    /\ Exists(files, p)
    /\ IsCopy(p)
    /\ files' = RemoveFile(files, p)
    /\ last' = NoCall
    /\ UNCHANGED <<uuids, embed>>

NextTwo ==
    \/ last = NoCall /\ \E w \in {<<LogoImage>>, <<SealImage>>} : EmbedReference(w)
    \/ last = NoCall /\ \E p \in DOMAIN files : DeleteCopy(p)
    \/ /\ last = NoCall
       /\ \E p \in TwoOutputs, pick \in {<<>>} \cup BackupCandidates(Disk) :
              EndpointCall(p, pick, MaxTwoUuids)
    \/ Return

SpecTwo == Init /\ [][NextTwo]_vars

(* ---------------- embed calls with an output path of the caller ---------------- *)
\* an output path the caller chooses in the processed directory
ChosenOutput == <<PROCESSED_DIR, "chosen.png">>
\* output_path: None, a path of the caller's own, or the path of the carrier
OutputPathArgs(image_path) == {<<>>, <<ChosenOutput>>, <<image_path>>}

\* one call of embed_watermark; the upload directory is part of what it may write
EmbedTo(image_path, watermark_text, watermark_image_path, output_path, fail) ==
    /\ Attempted(fail, watermark_image_path)
    /\ LET r == embed_watermark(Disk, image_path, watermark_text,
                                watermark_image_path, output_path, uuids, fail)
       IN  /\ r.uuids <= MaxUuids
           /\ files' = r.files
           /\ uuids' = r.uuids
           /\ embed' = [called |-> TRUE, image_path |-> image_path,
                        watermark_text |-> watermark_text,
                        watermark_image_path |-> watermark_image_path,
                        output_arg |-> output_path,
                        fail |-> fail, raised |-> r.raised,
                        output_path |-> r.output_path, encoded |-> r.encoded]
    /\ last' = NoCall

\* the embed call of the behaviour, with any of the output paths
NextOut ==
    /\ ~embed.called
    /\ \E c \in Carriers, t \in TextArgs, w \in ImagePathArgs, f \in WriteFailures :
           \E o \in OutputPathArgs(c) : EmbedTo(c, t, w, o, f)

SpecOut == Init /\ [][NextOut]_vars

(* ---------------- two embed calls at the same time ---------------- *)
\* the two invocations and the carrier of each
Procs == {1, 2}
ParCarrier(i) == IF i = 1 THEN MidCarrier ELSE DarkCarrier
ParTextArgs == {NoText, Some(<<"a">>)}
ParImagePathArgs == {<<>>, <<LogoImage>>}
ParOutputPathArgs == {<<>>, <<ChosenOutput>>}

\* the writes of one embed_watermark call, in the order of the code: display copy
\* and backup copy of the reference image, output image, sidecar, trailer.  r is
\* what the call does when it runs alone from the filesystem fs with n identifiers
\* generated: it gives the identifiers, the pixels and the record of the call
WritesOf(fs, watermark_text, watermark_image_path, r, n) ==
    LET out == r.output_path[1]
        copies ==
            IF PayloadKind(fs, watermark_text, watermark_image_path) = "image"
            THEN <<[op |-> "write", path |-> Join(STATIC_DIR, OriginalName(Uuid(n + 1))),
                    data |-> r.files[Join(STATIC_DIR, OriginalName(Uuid(n + 1)))]],
                   [op |-> "copy", path |-> Join(PROCESSED_DIR, BackupName(Uuid(n + 1))),
                    data |-> Join(STATIC_DIR, OriginalName(Uuid(n + 1)))]>>
            ELSE <<>>
    IN  copies
        \o <<[op |-> "write", path |-> out, data |-> <<r.files[out][1]>>],
             [op |-> "write", path |-> MetadataPath(out), data |-> r.files[MetadataPath(out)]],
             [op |-> "append", path |-> out, data |-> SubSeq(r.files[out], 2, 3)]>>

Idle == [pc |-> "idle", output_arg |-> <<>>, output_path |-> <<>>, writes |-> <<>>,
         written |-> 0]

\* invocation i enters embed_watermark: it reads the carrier and the reference image
\* and draws its identifiers
ParCall(i, watermark_text, watermark_image_path, output_path) ==
    /\ embed[i].pc = "idle"
    /\ \E r \in {embed_watermark(Disk, ParCarrier(i), watermark_text,
                                 watermark_image_path, output_path, uuids, "none")} :
           /\ uuids' = r.uuids
           /\ embed' = [embed EXCEPT ![i] =
                  [pc |-> "writing", output_arg |-> output_path,
                   output_path |-> r.output_path,
                   writes |-> WritesOf(Disk, watermark_text, watermark_image_path,
                                       r, uuids),
                   written |-> 0]]
    /\ UNCHANGED <<files, last>>

\* invocation i does its next write; shutil.copy2 of a missing file raises
ParWrite(i) ==
    /\ embed[i].pc = "writing"
    /\ LET w == embed[i].writes[embed[i].written + 1]
           isLast == embed[i].written + 1 = Len(embed[i].writes)
       IN  IF w.op = "copy" /\ ~Exists(Disk, w.data)
           THEN /\ embed' = [embed EXCEPT ![i].pc = "raised"]
                /\ UNCHANGED files
           ELSE /\ files' = Written(
                       IF w.op = "write" THEN WriteFile(Disk, w.path, w.data)
                       ELSE IF w.op = "copy" THEN WriteFile(Disk, w.path, Disk[w.data])
                       ELSE AppendFile(Disk, w.path, w.data))
                /\ embed' = [embed EXCEPT ![i].written = @ + 1,
                                          ![i].pc = IF isLast THEN "returned" ELSE "writing"]
    /\ UNCHANGED <<uuids, last>>

InitPar ==
    /\ files = <<>>
    /\ uuids = 0
    /\ embed = [i \in Procs |-> Idle]
    /\ last = NoCall

NextPar ==
    \E i \in Procs :
        \/ \E t \in ParTextArgs, w \in ParImagePathArgs, o \in ParOutputPathArgs :
               ParCall(i, t, w, o)
        \/ ParWrite(i)

SpecPar == InitPar /\ [][NextPar]_vars

(* ---------------- the embedding step on the coefficients ---------------- *)
\* the blocks of an image: one low-frequency coefficient each
Blocks(img) == (0 .. LLHeight(img) - 1) \X (0 .. LLWidth(img) - 1)

\* pywt.wavedec2(blue_channel, 'haar', level=1) of an image of even height and width:
\* ten times the approximation coefficient (a + b + c + d) / 2 of every block
\* (a b / c d), and twice each of its detail coefficients
wavedec2(img) ==
    LET px(b, di, dj) == img.px[<<2 * b[1] + di, 2 * b[2] + dj>>]
    IN  [ll10 |-> [b \in Blocks(img) |-> 5 * BlockSum(img, b[1], b[2])],
         cH2 |-> [b \in Blocks(img) |-> px(b, 0, 0) + px(b, 0, 1) - px(b, 1, 0) - px(b, 1, 1)],
         cV2 |-> [b \in Blocks(img) |-> px(b, 0, 0) - px(b, 0, 1) + px(b, 1, 0) - px(b, 1, 1)],
         cD2 |-> [b \in Blocks(img) |-> px(b, 0, 0) - px(b, 0, 1) - px(b, 1, 0) + px(b, 1, 1)]]

\* the embedding loop and coeffs[0] = ll_band: only the approximation band is written
EmbedLoop(img, coeffs, wm) ==
    [coeffs EXCEPT !.ll10 = [b \in Blocks(img) |-> @[b] + Added10(img, wm, b[1], b[2])]]

\* the blue values of a block: black, grey, white, an edge and a ramp
BlockPatterns ==
    {<<0, 0, 0, 0>>, <<100, 100, 100, 100>>, <<255, 255, 255, 255>>,
     <<0, 255, 0, 255>>, <<0, 100, 200, 255>>}
\* a carrier whose low-frequency band is one column wider than it is high: every
\* block has the pattern base but the block at, which has the pattern pat
CoeffCarrier(base, at, pat) ==
    Png(2 * HalfH, 2 * (HalfW + 1),
        [p \in (0 .. 2 * HalfH - 1) \X (0 .. 2 * (HalfW + 1) - 1) |->
            (IF <<p[1] \div 2, p[2] \div 2>> = at THEN pat ELSE base)
                [2 * (p[1] % 2) + (p[2] % 2) + 1]])
\* the payload matrices of the encoder: none, of a text, of a reference image
CoeffPayloads ==
    {EmptyMatrix, TextMatrix(<<>>), TextMatrix(<<"a">>), TextMatrix(<<"a", Quote>>),
     ImageMatrix(UploadedFiles[LogoImage][1])}

\* embed_watermark has decoded a carrier and built a payload matrix
InitCoeff ==
    /\ files = <<>>
    /\ uuids = 0
    /\ last = NoCall
    /\ \E base \in BlockPatterns, pat \in BlockPatterns, wm \in CoeffPayloads :
       \E at \in (0 .. HalfH - 1) \X (0 .. HalfW) :
           embed = [called |-> FALSE, img |-> CoeffCarrier(base, at, pat), wm |-> wm]

\* the decomposition of the blue channel and the embedding loop
EmbedCoefficients ==
    /\ ~embed.called
    /\ embed' = [called |-> TRUE, img |-> embed.img, wm |-> embed.wm,
                 before |-> wavedec2(embed.img),
                 after |-> EmbedLoop(embed.img, wavedec2(embed.img), embed.wm)]
    /\ UNCHANGED <<files, uuids, last>>

NextCoeff == EmbedCoefficients

SpecCoeff == InitCoeff /\ [][NextCoeff]_vars

(* ---------------- the window of the embedder ---------------- *)
\* the largest height and width of a sub-band
MaxBand == 16
\* the sides of a square payload matrix
MatrixSides == 1 .. MatrixSize
\* heights and widths of a sub-band: the small ones, and those around twice the
\* side of the matrix of the encoder
BandSizes == (1 .. MaxBand) \cup {2 * MatrixSize - 1, 2 * MatrixSize, 2 * MatrixSize + 1}

\* the resized shape, the offsets and the ends of the window for a sub-band of
\* ll_h x ll_w and a matrix of side x side, and the indices the loop may write
EmbedWindow(side, ll_h, ll_w) ==
    LET new_h == NewSize(side, ll_h, ll_w)
        new_w == NewSize(side, ll_h, ll_w)
        h_offset == (ll_h - new_h) \div 2
        w_offset == (ll_w - new_w) \div 2
        h_end == Min(ll_h, h_offset + new_h)
        w_end == Min(ll_w, w_offset + new_w)
    IN  [new_h |-> new_h, new_w |-> new_w, h_offset |-> h_offset, w_offset |-> w_offset,
         written |-> {<<h_offset + i, w_offset + j>> :
                          <<i, j>> \in {c \in (0 .. new_h - 1) \X (0 .. new_w - 1) :
                                           h_offset + c[1] < h_end /\ w_offset + c[2] < w_end}}]

\* the embedder has a sub-band and a payload matrix
InitWindow ==
    /\ files = <<>>
    /\ uuids = 0
    /\ last = NoCall
    /\ \E side \in MatrixSides, ll_h \in BandSizes, ll_w \in BandSizes :
           embed = [called |-> FALSE, side |-> side, ll_h |-> ll_h, ll_w |-> ll_w]

\* it resizes the matrix and places the window
PlaceWindow ==
    /\ ~embed.called
    /\ embed' = [called |-> TRUE, side |-> embed.side, ll_h |-> embed.ll_h,
                 ll_w |-> embed.ll_w,
                 window |-> EmbedWindow(embed.side, embed.ll_h, embed.ll_w)]
    /\ UNCHANGED <<files, uuids, last>>

\* the size, the offsets and the cells of the window the blind step of
\* extract_watermark reads in a sub-band of ll_h x ll_w
BlindWindow(ll_h, ll_w) ==
    LET wm_size == Min(32, Min(ll_h \div 2, ll_w \div 2))
        h_offset == (ll_h - wm_size) \div 2
        w_offset == (ll_w - wm_size) \div 2
    IN  [wm_size |-> wm_size, h_offset |-> h_offset, w_offset |-> w_offset,
         read |-> {<<h_offset + i, w_offset + j>> :
                       <<i, j>> \in {c \in (0 .. wm_size - 1) \X (0 .. wm_size - 1) :
                                        h_offset + c[1] < ll_h /\ w_offset + c[2] < ll_w}}]

\* blind extraction on the watermarked image, whose sub-band has the carrier's size
ReadWindow ==
    /\ embed.called
    /\ last = NoCall
    /\ last' = [op |-> "blind_window", window |-> BlindWindow(embed.ll_h, embed.ll_w)]
    /\ UNCHANGED <<files, uuids, embed>>

NextWindow == PlaceWindow \/ ReadWindow

SpecWindow == InitWindow /\ [][NextWindow]_vars

(* ---------------- the detection decision of the blind step ---------------- *)
\* the side of the recovered window
DecideSide == 2
\* values of a cell of extracted_wm (uint8)
CellValues == {0, 5, 15, 16}
\* the cells of a recovered window
DecideCells == (0 .. DecideSide - 1) \X (0 .. DecideSide - 1)

\* np.count_nonzero(extracted_wm)
CountNonZero(wm) == Cardinality({c \in DOMAIN wm : wm[c] > 0})
\* np.sum(np.square(extracted_wm)): the squares are uint8, the sum is not
RECURSIVE SumSquares8(_, _)
SumSquares8(wm, cells) ==
    IF cells = {} THEN 0
    ELSE LET c == CHOOSE x \in cells : TRUE
         IN  Square8(wm[c]) + SumSquares8(wm, cells \ {c})
\* the decision of lines 578-590 on the recovered window: more than a quarter of the
\* cells nonzero, and the mean of the squares above the floor
DecideDetected(wm) ==
    /\ 4 * CountNonZero(wm) > Cardinality(DOMAIN wm)
    /\ SumSquares8(wm, DOMAIN wm) > SignalFloor * Cardinality(DOMAIN wm)

\* the blind step has recovered a window
InitDecide ==
    /\ files = <<>>
    /\ uuids = 0
    /\ embed = NoEmbed
    /\ \E wm \in [DecideCells -> CellValues] :
           last = [op |-> "blind", decided |-> FALSE, extracted_wm |-> wm]

\* it decides whether the window is a detection
Decide ==
    /\ ~last.decided
    /\ last' = [op |-> "blind", decided |-> TRUE, extracted_wm |-> last.extracted_wm,
                detected |-> DecideDetected(last.extracted_wm)]
    /\ UNCHANGED <<files, uuids, embed>>

NextDecide == Decide

SpecDecide == InitDecide /\ [][NextDecide]_vars

(* ---------------- the encoding of a text ---------------- *)
\* the longest text and the small values of max_size
MaxEncodedLen == 5
MaxSmallSize == 4
\* max_size: small values, and the default
MaxSizeArgs == (1 .. MaxSmallSize) \cup {MatrixSize}

\* the text branch of _prepare_watermark_data(watermark_text, max_size): the matrix
\* of side min(max_size, 32), cell by cell, and the text_length of the metadata
EncodeText(s, max_size) ==
    LET wm == [src |-> "text", side |-> Min(max_size, 32), bytes |-> Utf8(s)]
    IN  [size |-> wm.side,
         watermark |-> [c \in (0 .. wm.side - 1) \X (0 .. wm.side - 1) |-> Cell(wm, c[1], c[2])],
         text_length |-> Len(Utf8(s))]

\* a text is about to be encoded
InitEncode ==
    /\ files = <<>>
    /\ uuids = 0
    /\ last = NoCall
    /\ \E s \in BoundedStrings(MaxEncodedLen), max_size \in MaxSizeArgs :
           embed = [called |-> FALSE, watermark_text |-> s, max_size |-> max_size]

\* _prepare_watermark_data encodes the text
Encode ==
    /\ ~embed.called
    /\ embed' = [called |-> TRUE, watermark_text |-> embed.watermark_text,
                 max_size |-> embed.max_size,
                 encoded |-> EncodeText(embed.watermark_text, embed.max_size)]
    /\ UNCHANGED <<files, uuids, last>>

\* and encodes the same text once more
EncodeAgain ==
    /\ embed.called
    /\ last = NoCall
    /\ last' = [op |-> "encode", encoded |-> EncodeText(embed.watermark_text, embed.max_size)]
    /\ UNCHANGED <<files, uuids, embed>>

NextEncode == Encode \/ EncodeAgain

SpecEncode == InitEncode /\ [][NextEncode]_vars

(* ---------------- the alpha argument ---------------- *)
\* the identifiers of two embeds of a reference image
MaxAlphaUuids == 4
\* alpha, in tenths: the default 0.1, 0.5 and the engine's own 100
AlphaArgs == {1, 5, 10 * alpha}
\* the two entry points that take alpha
EmbedEntries == {"embed_watermark", "embed_dct_watermark"}

\* a call through one of the entry points, output_path None, every write succeeding
EmbedThrough(entry, fs, image_path, watermark_text, watermark_image_path, alphaArg, n) ==
    IF entry = "embed_dct_watermark"
    THEN embed_dct_watermark(fs, image_path, watermark_text, watermark_image_path,
                             alphaArg, <<>>, n, "none")
    ELSE embed_watermark_with(fs, image_path, watermark_text, watermark_image_path,
                              alphaArg, <<>>, n, "none")

\* the first call
EmbedWith(entry, image_path, watermark_text, watermark_image_path, alphaArg) ==
    /\ ~embed.called
    /\ \E r \in {EmbedThrough(entry, Disk, image_path, watermark_text,
                              watermark_image_path, alphaArg, uuids)} :
           /\ r.uuids <= MaxAlphaUuids
           /\ files' = Written(r.files)
           /\ uuids' = r.uuids
           /\ embed' = [called |-> TRUE, image_path |-> image_path,
                        watermark_text |-> watermark_text,
                        watermark_image_path |-> watermark_image_path,
                        alpha |-> alphaArg, fail |-> "none", raised |-> r.raised,
                        output_path |-> r.output_path, encoded |-> r.encoded]
    /\ UNCHANGED last

\* a second call with the arguments of the first one and an alpha of its own
EmbedAgain(entry, alphaArg) ==
    /\ embed.called
    /\ last = NoCall
    /\ \E r \in {EmbedThrough(entry, Disk, embed.image_path, embed.watermark_text,
                              embed.watermark_image_path, alphaArg, uuids)} :
           /\ r.uuids <= MaxAlphaUuids
           /\ files' = Written(r.files)
           /\ uuids' = r.uuids
           /\ last' = [op |-> "embed_watermark", alpha |-> alphaArg,
                       raised |-> r.raised, output_path |-> r.output_path,
                       encoded |-> r.encoded]
    /\ UNCHANGED embed

NextAlpha ==
    \/ \E e \in EmbedEntries, c \in ApiCarriers, t \in TextArgs, w \in ImagePathArgs,
          a \in AlphaArgs : EmbedWith(e, c, t, w, a)
    \/ \E e \in EmbedEntries, a \in AlphaArgs : EmbedAgain(e, a)

SpecAlpha == Init /\ [][NextAlpha]_vars

(* ---------------- recovery of images that were never watermarked ---------------- *)
\* the suspect image has BlindHalf x BlindHalf low-frequency coefficients
BlindHalf == 4
\* blue levels of a 2x2 block: its coefficient is 0, exactly alpha / 2, just above
\* alpha / 2, exactly alpha, and the largest an 8-bit image has (510)
BlindLevels == {0, 25, 26, 50, 255}
\* the blocks in the middle of the image, which the blind step reads
CentreBlocks ==
    LET w == BlindHalf \div 2
        off == (BlindHalf - w) \div 2
    IN  (off .. off + w - 1) \X (off .. off + w - 1)
\* the image whose middle blocks have the levels f and whose other blocks have b
BlindImage(f, b) ==
    Png(2 * BlindHalf, 2 * BlindHalf,
        [p \in (0 .. 2 * BlindHalf - 1) \X (0 .. 2 * BlindHalf - 1) |->
            IF <<p[1] \div 2, p[2] \div 2>> \in CentreBlocks
            THEN f[<<p[1] \div 2, p[2] \div 2>>] ELSE b])

\* a suspect image of any content is uploaded; it has no sidecar and no trailer
InitBlind ==
    /\ \E f \in [CentreBlocks -> BlindLevels], b \in BlindLevels :
           files = (SuspectUpload :> <<BlindImage(f, b)>>)
    /\ uuids = 0
    /\ embed = NoEmbed
    /\ last = NoCall

NextBlind ==
    \/ last = NoCall /\ ExtractWatermark(SuspectUpload)
    \/ Return

SpecBlind == InitBlind /\ [][NextBlind]_vars

(* ---------------- what the claims speak about ---------------- *)
\* the embed call returned its output path
Returned == embed.called /\ ~embed.raised
Output == embed.output_path[1]
\* the last call was extract_watermark on p / extract_watermark_image on p
Recovered(p) == last.op = "extract_watermark" /\ last.image_path = p
RecoveredImage(p) == last.op = "extract_watermark_image" /\ last.image_path = p

\* the sidecar of p is there and is a whole JSON document; its fields as written
SidecarIntact(p) ==
    /\ Exists(Disk, MetadataPath(p))
    /\ Len(Disk[MetadataPath(p)]) = 1
    /\ Disk[MetadataPath(p)][1].t = "json"
    /\ Disk[MetadataPath(p)][1].closed
SidecarFields(p) == Disk[MetadataPath(p)][1].fields
\* p is an image followed by the marker and a whole JSON document
TrailerIntact(p) ==
    /\ Exists(Disk, p)
    /\ Len(Disk[p]) = 3
    /\ Disk[p][1].t = "png"
    /\ Disk[p][2].t = "marker"
    /\ Disk[p][3].t = "json"
    /\ Disk[p][3].closed
TrailerFields(p) == Disk[p][3].fields
\* p has no sidecar / no marker
NoSidecar(p) == ~Exists(Disk, MetadataPath(p))
NoTrailer(p) == Exists(Disk, p) /\ \A i \in 1 .. Len(Disk[p]) : Disk[p][i].t # "marker"

\* the file a locator of the static directory names
FileOf(url) == Join(STATIC_DIR, Tail(url))
HasUrl(fields, key) == key \in DOMAIN fields /\ fields[key] # NoUrl
\* the original display copy a record names is on disk / only its backup is
OriginalThere(fields) ==
    HasUrl(fields, "watermark_image_url") /\ Exists(Disk, FileOf(fields["watermark_image_url"]))
BackupThere(fields) ==
    /\ HasUrl(fields, "watermark_image_url")
    /\ HasUrl(fields, "backup_image_url")
    /\ \/ Exists(Disk, FileOf(fields["backup_image_url"]))
       \/ Exists(Disk, Join(PROCESSED_DIR, Tail(fields["backup_image_url"])))
OnlyBackupThere(fields) == ~OriginalThere(fields) /\ BackupThere(fields)
TypeOf(fields) == IF "watermark_type" \in DOMAIN fields THEN fields["watermark_type"] ELSE "None"

\* a record of type text or image from which a payload can be returned
RecordUsable(fields) ==
    \/ TypeOf(fields) = "text"
    \/ TypeOf(fields) = "image" /\ (OriginalThere(fields) \/ BackupThere(fields))
\* a record of another type that the trailer step still accepts
UntypedUsable(fields) ==
    /\ TypeOf(fields) \notin {"text", "image"}
    /\ IF "watermark_image_url" \in DOMAIN fields
       THEN OriginalThere(fields)
       ELSE "watermark_text" \in DOMAIN fields /\ fields["watermark_text"] # <<>>
SidecarUsable(p) == SidecarIntact(p) /\ RecordUsable(SidecarFields(p))
TrailerUsable(p) ==
    TrailerIntact(p) /\ (RecordUsable(TrailerFields(p)) \/ UntypedUsable(TrailerFields(p)))

(* ---------------- C1 ---------------- *)
\* C1 as stated: extract_watermark goes through sidecar, trailer, blind extraction in
\* this order and stops at the first that yields a detection, and when sidecar and
\* trailer are both usable the result is the sidecar's, with confidence 0.99.
C1_SidecarWinsWith99 ==
    \A p \in SuspectPaths :
        Recovered(p) /\ SidecarUsable(p) /\ TrailerUsable(p) =>
            /\ last.consulted = <<"sidecar">>
            /\ last.result.detected
            /\ last.result.confidence = 99

\* C1 amended: the same order and the same stop at the first detection; when the
\* sidecar is usable the result is the sidecar's, whose confidence is 0.99, or 0.95
\* when only the backup display copy is left.
C1_FirstSourceWins ==
    \A p \in SuspectPaths :
        Recovered(p) =>
            /\ last.consulted \in {<<"sidecar">>, <<"sidecar", "trailer">>,
                                   <<"sidecar", "trailer", "blind">>}
            /\ (last.consulted = <<"sidecar">>) <=> SidecarUsable(p)
            /\ (last.consulted = <<"sidecar", "trailer">>) <=>
                   (~SidecarUsable(p) /\ TrailerUsable(p))
            /\ Len(last.consulted) < 3 => last.result.detected
            /\ SidecarUsable(p) =>
                   last.result.confidence =
                       IF OnlyBackupThere(SidecarFields(p)) /\ TypeOf(SidecarFields(p)) = "image"
                       THEN 95 ELSE 99

\* both sources usable, the sidecar decided, through the backup copy
C1_Witness ==
    /\ Returned
    /\ Recovered(Output)
    /\ SidecarUsable(Output) /\ TrailerUsable(Output)
    /\ last.consulted = <<"sidecar">>
    /\ last.result.confidence = 95

(* ---------------- C2 ---------------- *)
\* the embed call carried the text s and no reference image file
EmbeddedText ==
    /\ Returned
    /\ embed.watermark_text # NoText
    /\ embed.watermark_image_path = <<>> \/ ~Exists(Disk, embed.watermark_image_path[1])
    /\ Decodable(Disk, embed.image_path)

\* C2: embedding a text s (shorter than the matrix size) into a decodable carrier and
\* running extract_watermark on the output while its sidecar is there returns
\* detected, type text, the text equal to s, and a confidence of at least 0.95.
C2_TextRoundTrip ==
    (/\ EmbeddedText
     /\ Len(embed.watermark_text[1]) < MatrixSize
     /\ Recovered(Output)
     /\ SidecarIntact(Output))
    =>  /\ last.result.success
        /\ last.result.detected
        /\ last.result.watermark_type = "text"
        /\ last.result.watermark_text = embed.watermark_text[1]
        /\ last.result.confidence >= 95

\* a text with a quote in it went through the sidecar and came back
C2_Witness ==
    /\ EmbeddedText
    /\ Recovered(Output)
    /\ Exists(Disk, MetadataPath(Output))
    /\ Quote \in {embed.watermark_text[1][i] : i \in 1 .. Len(embed.watermark_text[1])}
    /\ last.result.detected
    /\ last.result.watermark_text = embed.watermark_text[1]

(* ---------------- C3 ---------------- *)
\* the embed call carried a decodable reference image
EmbeddedImage ==
    /\ Returned
    /\ embed.watermark_image_path # <<>>
    /\ Decodable(Disk, embed.watermark_image_path[1])
    /\ Decodable(Disk, embed.image_path)
\* a display copy written by the embed call is still on disk
OriginalCopyRemains ==
    \E n \in 1 .. MaxUuids : Exists(Disk, Join(STATIC_DIR, OriginalName(Uuid(n))))
BackupCopyRemains ==
    \E n \in 1 .. MaxUuids :
        \/ Exists(Disk, Join(STATIC_DIR, BackupName(Uuid(n))))
        \/ Exists(Disk, Join(PROCESSED_DIR, BackupName(Uuid(n))))
\* the result names an image payload whose file exists
ImageRecovered ==
    /\ last.result.success
    /\ last.result.detected
    /\ last.result.watermark_type = "image"
    /\ last.result.watermark_image_url # NoUrl
    /\ Exists(Disk, FileOf(last.result.watermark_image_url))

\* C3 as stated: after embedding a decodable reference image, extract_watermark
\* returns detected, type image and a locator whose file exists (a) with every
\* redundancy location intact, (b) with the sidecar deleted, (c) with sidecar and
\* trailer both gone while the backup copy of the reference image remains.
C3_EvenWithoutMetadata ==
    (/\ EmbeddedImage
     /\ Recovered(Output)
     /\ \/ /\ SidecarIntact(Output) /\ TrailerIntact(Output)
           /\ OriginalCopyRemains /\ BackupCopyRemains
        \/ /\ NoSidecar(Output) /\ TrailerIntact(Output)
           /\ OriginalCopyRemains /\ BackupCopyRemains
        \/ /\ NoSidecar(Output) /\ NoTrailer(Output)
           /\ BackupCopyRemains)
    => ImageRecovered

\* beside C3: what extract_watermark does return while a record is left.  With the
\* sidecar intact, or deleted and the trailer intact, and a display copy on disk,
\* the result is detected, type image, with a locator whose file exists.
ImageRoundTripWithRecord ==
    (/\ EmbeddedImage
     /\ Recovered(Output)
     /\ SidecarIntact(Output) \/ (NoSidecar(Output) /\ TrailerIntact(Output))
     /\ OriginalCopyRemains \/ BackupCopyRemains)
    => ImageRecovered

\* sidecar and trailer are gone, the backup copy is there, and the reference image
\* did not come back
C3_Witness ==
    /\ EmbeddedImage
    /\ Recovered(Output)
    /\ NoSidecar(Output) /\ NoTrailer(Output)
    /\ BackupCopyRemains
    /\ last.result.success
    /\ ~last.result.detected
    /\ last.result.watermark_image_url = NoUrl

(* ---------------- C4 ---------------- *)
\* the embed call carried a payload that is not empty and wrote its output image
EmbeddedPayload ==
    /\ Returned
    /\ Decodable(Disk, embed.image_path)
    /\ \/ embed.encoded = "image"
       \/ embed.encoded = "text" /\ embed.watermark_text[1] # <<>>
\* every metadata source of p is gone, the image itself is readable
OnlyPixelsLeft(p) == NoSidecar(p) /\ NoTrailer(p) /\ Decodable(Disk, p)

\* C4 as stated: with no sidecar and no trailer, extract_watermark on the output of
\* an embed that carried a non-empty payload returns detected through the blind
\* signal extraction, with a confidence of at most 0.8.
C4_BlindFindsEmbedded ==
    (/\ EmbeddedPayload
     /\ Recovered(Output)
     /\ OnlyPixelsLeft(Output))
    =>  /\ last.result.detected
        /\ last.result.confidence <= 80
        /\ last.consulted = <<"sidecar", "trailer", "blind">>

\* the blind step ran on the output of such an embed and found nothing
C4_Witness ==
    /\ EmbeddedPayload
    /\ Recovered(Output)
    /\ OnlyPixelsLeft(Output)
    /\ last.consulted = <<"sidecar", "trailer", "blind">>
    /\ last.result.success
    /\ ~last.result.detected

(* ---------------- C5 ---------------- *)
\* C5: on a decodable image that was never watermarked, with no sidecar and no
\* trailer marker, extract_watermark returns success, not detected and confidence 0,
\* whatever the blue channel holds.
C5_NothingInPlainImage ==
    (/\ Recovered(SuspectUpload)
     /\ OnlyPixelsLeft(SuspectUpload))
    =>  /\ last.result.success
        /\ ~last.result.detected
        /\ last.result.confidence = 0
        /\ last.consulted = <<"sidecar", "trailer", "blind">>

\* the brightest image there is went through the blind step: every coefficient it
\* read was above the threshold
C5_Witness ==
    /\ Recovered(SuspectUpload)
    /\ OnlyPixelsLeft(SuspectUpload)
    /\ \A c \in CentreBlocks : BlockSum(Imread(Disk, SuspectUpload), c[1], c[2]) = 4 * 255
    /\ NonZeroPixels(Imread(Disk, SuspectUpload)) = Cardinality(CentreBlocks)
    /\ ~last.result.detected

(* ---------------- C6 ---------------- *)
\* the embed call had no text (None) and no reference image, and wrote its output
EmbeddedNothing ==
    /\ Returned
    /\ embed.watermark_text = NoText
    /\ embed.watermark_image_path = <<>>
    /\ Decodable(Disk, embed.image_path)

\* C6: embed_watermark called with no text and no reference image writes metadata
\* of type 'none', and extract_watermark on its output, sidecar and trailer intact,
\* returns success and not detected.
C6_NoPayload ==
    EmbeddedNothing =>
        /\ embed.encoded = "none"
        /\ SidecarIntact(Output) => TypeOf(SidecarFields(Output)) = "none"
        /\ TrailerIntact(Output) => TypeOf(TrailerFields(Output)) = "none"
        /\ (Recovered(Output) /\ SidecarIntact(Output) /\ TrailerIntact(Output)) =>
               /\ last.result.success
               /\ ~last.result.detected
               /\ last.result.confidence = 0

\* the output of an embed without payload was recovered with both records in place
C6_Witness ==
    /\ EmbeddedNothing
    /\ Recovered(Output)
    /\ SidecarIntact(Output) /\ TrailerIntact(Output)
    /\ TypeOf(SidecarFields(Output)) = "none"
    /\ last.consulted = <<"sidecar", "trailer", "blind">>
    /\ ~last.result.detected

(* ---------------- C7 ---------------- *)
\* the embed call had both a text and a decodable reference image
EmbeddedBoth ==
    /\ EmbeddedImage
    /\ embed.watermark_text # NoText

\* C7: when both a text and a decodable reference image are given to embed, the
\* encoded payload and the written metadata are of type image, and recovery of the
\* output returns type image and never the text, whatever the text is.
C7_ImageOverText ==
    EmbeddedBoth =>
        /\ embed.encoded = "image"
        /\ SidecarIntact(Output) =>
               /\ TypeOf(SidecarFields(Output)) = "image"
               /\ "watermark_text" \notin DOMAIN SidecarFields(Output)
        /\ TrailerIntact(Output) =>
               /\ TypeOf(TrailerFields(Output)) = "image"
               /\ "watermark_text" \notin DOMAIN TrailerFields(Output)
        /\ Recovered(Output) =>
               /\ last.result.watermark_text = <<>>
               /\ last.result.watermark_type # "text"
               /\ last.result.detected => last.result.watermark_type = "image"
               /\ (SidecarUsable(Output) \/ TrailerUsable(Output)) =>
                      last.result.detected
        /\ RecoveredImage(Output) /\ last.result.detected =>
               last.result.watermark_type = "image"

\* a text that is not empty was given with the logo, and the logo came back
C7_Witness ==
    /\ EmbeddedBoth
    /\ embed.watermark_text[1] # <<>>
    /\ Recovered(Output)
    /\ last.result.detected
    /\ last.result.watermark_type = "image"
    /\ last.result.watermark_text = <<>>

(* ---------------- C8 ---------------- *)
\* C8 as stated: a recovery call on a readable image that finds no watermark returns
\* success, not detected and confidence 0; success is false only when the image
\* cannot be read.  This for extract_watermark and for extract_watermark_image.
C8_NothingFoundIsSuccess ==
    (/\ last.op \in {"extract_watermark", "extract_watermark_image"}
     /\ Decodable(Disk, last.image_path)
     /\ ~last.result.detected)
    =>  /\ last.result.success
        /\ last.result.confidence = 0

\* extract_watermark_image read a readable image, found too few pixels, and
\* answered success = false
C8_Witness ==
    /\ last.op = "extract_watermark_image"
    /\ Decodable(Disk, last.image_path)
    /\ TooFewPixels(Imread(Disk, last.image_path))
    /\ ~last.result.detected
    /\ ~last.result.success

(* ---------------- C9 ---------------- *)
\* the detection answered with the backup copy a record of type image names
ResolvedBackup(fields) ==
    /\ TypeOf(fields) = "image"
    /\ HasUrl(fields, "backup_image_url")
    /\ last.result.watermark_image_url = fields["backup_image_url"]
\* the last call was a detection of extract_watermark on p from that source
DetectedBySidecar(p) ==
    Recovered(p) /\ last.result.detected /\ last.consulted = <<"sidecar">>
DetectedByTrailer(p) ==
    Recovered(p) /\ last.result.detected /\ last.consulted = <<"sidecar", "trailer">>

\* C9 as stated: a sidecar detection has confidence 0.99, or 0.95 when only the
\* backup copy resolves; a trailer detection has confidence 0.95, or 0.90 when only
\* the backup copy resolves; this for every parseable trailer record.
C9_ConfidenceBySourceOnly ==
    \A p \in SuspectPaths :
        /\ DetectedBySidecar(p) =>
               last.result.confidence =
                   IF ResolvedBackup(SidecarFields(p)) THEN 95 ELSE 99
        /\ DetectedByTrailer(p) =>
               last.result.confidence =
                   IF ResolvedBackup(TrailerFields(p)) THEN 90 ELSE 95

\* C9 amended: the same confidences for records of type text or image; a trailer
\* record of any other type that is accepted (it names an existing display copy, or
\* has a text) gives confidence 0.90.
C9_ConfidenceBySourceAndType ==
    \A p \in SuspectPaths :
        /\ DetectedBySidecar(p) =>
               last.result.confidence =
                   IF ResolvedBackup(SidecarFields(p)) THEN 95 ELSE 99
        /\ DetectedByTrailer(p) =>
               last.result.confidence =
                   IF TypeOf(TrailerFields(p)) \notin {"text", "image"} THEN 90
                   ELSE IF ResolvedBackup(TrailerFields(p)) THEN 90
                   ELSE 95

\* a trailer record without a type was accepted for its text, with confidence 0.90
C9_Witness ==
    /\ DetectedByTrailer(ForeignText)
    /\ TypeOf(TrailerFields(ForeignText)) = "None"
    /\ last.result.watermark_type = "text"
    /\ last.result.confidence = 90

(* ---------------- C10 ---------------- *)
\* the embed call reached its redundancy writes and one of them failed
RedundancyWriteFailed ==
    /\ embed.called
    /\ Decodable(Disk, embed.image_path)
    /\ embed.fail \in {"sidecar", "trailer", "backup"}

\* C10 as stated: when the sidecar write, the trailer append or the copy of the
\* reference image to its backup location fails during embed, the failure is skipped
\* and embed_watermark still returns the output path.
C10_RedundancyFailureSkipped ==
    RedundancyWriteFailed =>
        /\ ~embed.raised
        /\ embed.output_path # <<>>

\* the sidecar write failed and embed_watermark raised, the output image written
C10_Witness ==
    /\ RedundancyWriteFailed
    /\ embed.fail = "sidecar"
    /\ embed.raised
    /\ embed.output_path = <<>>
    /\ \E p \in OutputPaths : Decodable(Disk, p)

(* ---------------- C11 ---------------- *)
\* the output has one sidecar and one trailer, whole, and both decode to one record
RecordInBothLocations ==
    /\ SidecarIntact(Output)
    /\ TrailerIntact(Output)
    /\ JsonParses(Disk[MetadataPath(Output)])
    /\ JsonParses(<<Disk[Output][3]>>)
    /\ JsonLoad(Disk[MetadataPath(Output)]) = JsonLoad(<<Disk[Output][3]>>)
    /\ "watermark_type" \in DOMAIN JsonLoad(Disk[MetadataPath(Output)])
\* this step is an embed_watermark call that returns, none of its writes failing
EmbedReturnsAllWritten ==
    /\ ~embed.called
    /\ embed'.called
    /\ ~embed'.raised
    /\ embed'.fail = "none"

\* C11: when an embed_watermark call returns normally and none of its writes
\* failed, one metadata record has been produced and it is in both redundancy
\* locations: the sidecar at output path + '.metadata' and the trailer after the
\* marker at the end of the output file decode to the same record.
C11_SameRecordInSidecarAndTrailer ==
    [][EmbedReturnsAllWritten => RecordInBothLocations']_vars

\* an embed call with a text that needs escaping has returned, the record is in both
\* locations
C11_Witness ==
    /\ Returned
    /\ embed.fail = "none"
    /\ embed.watermark_text = Some(<<Quote>>)
    /\ RecordInBothLocations
    /\ JsonLoad(Disk[MetadataPath(Output)])["watermark_text"] = <<Quote>>

(* ---------------- C12 ---------------- *)
\* a source of p is present but does not parse as a metadata record
SidecarMalformed(p) == Exists(Disk, MetadataPath(p)) /\ ~SidecarIntact(p)
TrailerMalformed(p) ==
    /\ Exists(Disk, p)
    /\ Len(Disk[p]) = 3
    /\ Disk[p][1].t = "png"
    /\ Disk[p][2].t = "marker"
    /\ Disk[p][3].t = "json"
    /\ ~Disk[p][3].closed
\* the trailer record of p names a display copy that is on disk
TrailerNamesCopy(p) ==
    TrailerIntact(p) /\ (OriginalThere(TrailerFields(p)) \/ BackupThere(TrailerFields(p)))
\* the locator of the result is one the trailer record of p names
AnsweredFromTrailer(p) ==
    /\ last.result.detected
    /\ last.result.watermark_image_url # NoUrl
    /\ \/ last.result.watermark_image_url = TrailerFields(p)["watermark_image_url"]
       \/ /\ HasUrl(TrailerFields(p), "backup_image_url")
          /\ last.result.watermark_image_url = TrailerFields(p)["backup_image_url"]

\* what C12 says of extract_watermark: after a malformed sidecar the trailer is
\* consulted, after a malformed trailer the blind step, and the call succeeds
MalformedSourcePassedOver ==
    \A p \in SuspectPaths :
        /\ (Recovered(p) /\ SidecarMalformed(p)) =>
               /\ Len(last.consulted) >= 2
               /\ last.consulted[2] = "trailer"
               /\ TrailerUsable(p) => last.consulted = <<"sidecar", "trailer">>
               /\ Decodable(Disk, p) => last.result.success
        /\ (Recovered(p) /\ TrailerMalformed(p) /\ ~SidecarUsable(p)) =>
               /\ last.consulted = <<"sidecar", "trailer", "blind">>
               /\ last.result.success

\* C12 as stated: a sidecar or trailer that is present but malformed is treated as
\* unusable and recovery goes on to the next source, skipping none, without
\* success = false; this in extract_watermark and in extract_watermark_image.
C12_MalformedSourceOnlyPassedOver ==
    /\ MalformedSourcePassedOver
    /\ \A p \in SuspectPaths :
           (RecoveredImage(p) /\ SidecarMalformed(p) /\ TrailerNamesCopy(p)) =>
               AnsweredFromTrailer(p)

\* extract_watermark_image met a malformed sidecar and, the trailer whole and its
\* display copy on disk, answered from the pixels
C12_Witness ==
    /\ Returned
    /\ RecoveredImage(Output)
    /\ SidecarMalformed(Output)
    /\ TrailerNamesCopy(Output)
    /\ ~AnsweredFromTrailer(Output)

(* ---------------- C13 ---------------- *)
\* the record names an original and a backup display copy
NamesBothCopies(fields) ==
    /\ TypeOf(fields) = "image"
    /\ HasUrl(fields, "watermark_image_url")
    /\ HasUrl(fields, "backup_image_url")
\* the last call was a request to the recovery endpoint with the bytes of p
Requested(p) == last.op = "extract_invisible_watermark" /\ last.image_path = p
\* after the call: the original's locator is returned when its file is there, and
\* when the answer came from the backup the original's locator resolves as well
OriginalServed(fields) ==
    /\ OriginalThere(fields) =>
           /\ last.result.detected
           /\ last.result.watermark_image_url = fields["watermark_image_url"]
    /\ (~OriginalThere(fields) /\ BackupThere(fields)) =>
           /\ last.result.detected
           /\ Exists(Disk, FileOf(fields["watermark_image_url"]))

\* beside C13: extract_watermark returns the original's locator whenever the
\* original file exists
EnginePrefersOriginal ==
    \A p \in SuspectPaths :
        (Recovered(p) /\ SidecarIntact(p) /\ NamesBothCopies(SidecarFields(p))
         /\ OriginalThere(SidecarFields(p)))
        =>  /\ last.result.detected
            /\ last.result.watermark_image_url = SidecarFields(p)["watermark_image_url"]

\* C13 as stated: when the metadata names an original and a backup display copy,
\* recovery returns the original's locator whenever the original file exists, and
\* when the original is absent and the backup exists the backup is copied to the
\* original's serving location, so that the original's locator resolves afterwards;
\* this for extract_watermark and for the recovery endpoint.
C13_OriginalLocatorServed ==
    \A p \in SuspectPaths :
        /\ (Recovered(p) /\ SidecarIntact(p) /\ NamesBothCopies(SidecarFields(p)))
               => OriginalServed(SidecarFields(p))
        /\ (Requested(p) /\ TrailerIntact(p) /\ NamesBothCopies(TrailerFields(p)))
               => OriginalServed(TrailerFields(p))

\* extract_watermark answered with the backup's locator; the backup is in the static
\* directory under its own name and the original's locator still names no file
C13_Witness ==
    /\ Returned
    /\ Recovered(Output)
    /\ SidecarIntact(Output)
    /\ NamesBothCopies(SidecarFields(Output))
    /\ last.result.detected
    /\ last.result.watermark_image_url = SidecarFields(Output)["backup_image_url"]
    /\ Exists(Disk, FileOf(SidecarFields(Output)["backup_image_url"]))
    /\ ~Exists(Disk, FileOf(SidecarFields(Output)["watermark_image_url"]))

(* ---------------- C14 ---------------- *)
\* the step is a call of embed_watermark
EmbedStep == embed' # embed \/ files' # files \/ uuids' # uuids
\* the carrier of the call is the same file after the call as before
CarrierKept ==
    /\ Exists(Disk', embed'.image_path)
    /\ Disk'[embed'.image_path] = Disk[embed'.image_path]

\* C14 as stated: for every embed_watermark call, the calls that pass an explicit
\* output_path included, the carrier at image_path still exists and has the same
\* bytes after the call as before.
C14_CarrierNeverOverwritten == [][(embed'.called /\ EmbedStep) => CarrierKept]_vars

\* beside C14: with a generated output path, or one that is not the carrier's, the
\* carrier is left as it was
CarrierKeptUnlessNamedAsOutput ==
    [][(embed'.called /\ EmbedStep /\ embed'.output_arg # <<embed'.image_path>>)
       => CarrierKept]_vars

\* embed_watermark returned the path of its carrier as the output, and the carrier
\* is no longer the uploaded file
C14_Witness ==
    /\ Returned
    /\ embed.output_arg = <<embed.image_path>>
    /\ Output = embed.image_path
    /\ Disk[embed.image_path] # UploadedFiles[embed.image_path]

(* ---------------- C15 ---------------- *)
\* the call of the step was given a carrier that does not decode as an image
CarrierUndecodable == embed' # embed /\ embed'.called /\ ~Decodable(Disk, embed'.image_path)

\* C15: if the carrier cannot be decoded as an image, embed_watermark fails with an
\* error and leaves the filesystem unchanged: no output image, no sidecar, no trailer,
\* no display copy and no backup copy of the reference image.
C15_BrokenCarrierChangesNothing ==
    [][CarrierUndecodable => (embed'.raised /\ embed'.output_path = <<>> /\ Disk' = Disk)]_vars

\* the call had an undecodable carrier and a decodable reference image, whose copies
\* it would have made; it raised, and the filesystem holds the uploads only
C15_Witness ==
    /\ embed.called
    /\ embed.raised
    /\ embed.image_path = BrokenCarrier
    /\ embed.watermark_image_path = <<LogoImage>>
    /\ Disk = UploadedFiles

(* ---------------- C16 ---------------- *)
\* what a record carries
CarriesLocator(fields) == "watermark_image_url" \in DOMAIN fields
CarriesText(fields) == "watermark_text" \in DOMAIN fields
\* the payload kind of a record mirrors what it carries
KindMirrorsContent(fields) ==
    /\ TypeOf(fields) \in {"image", "text", "none"}
    /\ (TypeOf(fields) = "image") <=> (CarriesLocator(fields) /\ ~CarriesText(fields))
    /\ (TypeOf(fields) = "text") <=> (CarriesText(fields) /\ ~CarriesLocator(fields))
    /\ (TypeOf(fields) = "none") <=> (~CarriesText(fields) /\ ~CarriesLocator(fields))

\* C16 as stated: in every metadata record written by embed_watermark the kind is
\* 'image' exactly when the record carries an image locator and no text, 'text'
\* exactly when it carries the text and no locator, 'none' exactly when it carries
\* neither, for every combination of text and reference image.
C16_KindMirrorsContent ==
    /\ (Returned /\ SidecarIntact(Output)) => KindMirrorsContent(SidecarFields(Output))
    /\ (Returned /\ TrailerIntact(Output)) => KindMirrorsContent(TrailerFields(Output))

\* beside C16: the kind mirrors the content whenever the reference image, if one is
\* given and its file exists, decodes
KindMirrorsContentOfDecodable ==
    (/\ Returned
     /\ SidecarIntact(Output)
     /\ embed.watermark_image_path # <<>> /\ Exists(Disk, embed.watermark_image_path[1])
            => Decodable(Disk, embed.watermark_image_path[1]))
    => KindMirrorsContent(SidecarFields(Output))

\* a text and a reference image whose file is no image were given: the record
\* written has the kind 'image', the text, and no locator
C16_Witness ==
    /\ Returned
    /\ embed.watermark_text # NoText
    /\ embed.watermark_image_path = <<BrokenImage>>
    /\ SidecarIntact(Output)
    /\ TrailerIntact(Output)
    /\ TypeOf(SidecarFields(Output)) = "image"
    /\ CarriesText(SidecarFields(Output))
    /\ ~CarriesLocator(SidecarFields(Output))
    /\ TrailerFields(Output) = SidecarFields(Output)

(* ---------------- C17 ---------------- *)
\* the last extract_watermark call went as far as blind extraction
BlindPerformed == Len(last.consulted) = 3 /\ last.consulted[3] = "blind"

\* C17 as stated: extract_watermark never performs blind extraction when a parseable
\* record is in the sidecar or in the trailer of the suspect image, whatever the
\* record's payload kind and whether or not its display copies still exist.
C17_NoBlindWithParseableRecord ==
    \A p \in SuspectPaths :
        (Recovered(p) /\ (SidecarIntact(p) \/ TrailerIntact(p))) => ~BlindPerformed

\* beside C17: blind extraction is not performed when a record yields a payload
NoBlindWithUsableRecord ==
    \A p \in SuspectPaths :
        (Recovered(p) /\ (SidecarUsable(p) \/ TrailerUsable(p))) => ~BlindPerformed

\* sidecar and trailer of the output both hold the record of an image payload whose
\* display copies are gone, and extract_watermark went on to blind extraction
C17_Witness ==
    /\ Returned
    /\ Recovered(Output)
    /\ SidecarIntact(Output)
    /\ TrailerIntact(Output)
    /\ NamesBothCopies(SidecarFields(Output))
    /\ TrailerFields(Output) = SidecarFields(Output)
    /\ ~OriginalThere(SidecarFields(Output))
    /\ ~BackupThere(SidecarFields(Output))
    /\ BlindPerformed

(* ---------------- C18 ---------------- *)
\* the locators invocation i writes to
Targets(i) == {embed[i].writes[k].path : k \in DOMAIN embed[i].writes}
BothCalled == \A i \in Procs : embed[i].pc # "idle"
BothReturned == \A i \in Procs : embed[i].pc = "returned"
\* the output of invocation i holds the pixels and the record of invocation i, and
\* so does its sidecar
OwnRecords(i) ==
    LET ws == embed[i].writes
        n == Len(ws)
    IN  /\ Exists(Disk, ws[n].path)
        /\ Disk[ws[n].path] = ws[n - 2].data \o ws[n].data
        /\ Exists(Disk, ws[n - 1].path)
        /\ Disk[ws[n - 1].path] = ws[n - 1].data
\* the locators of the two are pairwise distinct, and once both have returned each
\* one's sidecar and trailer describe its own image
NoCrossWrites ==
    /\ BothCalled => Targets(1) \cap Targets(2) = {}
    /\ BothReturned => \A i \in Procs : OwnRecords(i)

\* C18 as stated: for any two concurrent embed invocations the locators they write to
\* are pairwise distinct, so under every interleaving of their write steps no
\* invocation's sidecar or trailer ends up describing the other invocation's image.
C18_NoSharedLocator == NoCrossWrites

\* beside C18: the same holds for any two concurrent invocations that leave the
\* output path to the engine (output_path is None)
GeneratedLocatorsDistinct ==
    (\A i \in Procs : embed[i].output_arg = <<>>) => NoCrossWrites

\* two invocations were given the same output path and have both returned: the
\* image at that path has the pixels of one invocation followed by the trailer of
\* the other
C18_Witness ==
    /\ BothReturned
    /\ \A i \in Procs : embed[i].output_path = <<ChosenOutput>>
    /\ \E i, j \in Procs :
           LET wi == embed[i].writes
               wj == embed[j].writes
           IN  /\ i # j
               /\ Disk[ChosenOutput][1] = wi[Len(wi) - 2].data[1]
               /\ Disk[ChosenOutput][1] # wj[Len(wj) - 2].data[1]
               /\ SubSeq(Disk[ChosenOutput], 2, 3) = wj[Len(wj)].data
               /\ wj[Len(wj)].data # wi[Len(wi)].data

(* ---------------- C19 ---------------- *)
\* coefficient b lies in the centred window of the resized payload matrix
InWindow(img, wm, b) ==
    LET n == NewSize(wm.side, LLHeight(img), LLWidth(img))
        h_offset == (LLHeight(img) - n) \div 2
        w_offset == (LLWidth(img) - n) \div 2
    IN  /\ b[1] >= h_offset /\ b[1] < h_offset + n
        /\ b[2] >= w_offset /\ b[2] < w_offset + n
\* the cell of the resized payload matrix that belongs to coefficient b of the window
PayloadAt(img, wm, b) ==
    LET n == NewSize(wm.side, LLHeight(img), LLWidth(img))
    IN  Resized(wm, n, b[1] - (LLHeight(img) - n) \div 2, b[2] - (LLWidth(img) - n) \div 2)
\* ten times what the embedding step added to coefficient b
Raise10(b) == embed.after.ll10[b] - embed.before.ll10[b]
\* coefficient b has a nonzero payload cell
Marked(b) == InWindow(embed.img, embed.wm, b) /\ PayloadAt(embed.img, embed.wm, b) > 0

\* C19 as stated: for every cell of the resized payload matrix with a nonzero value v,
\* embed adds exactly strength x v to the corresponding low-frequency coefficient,
\* strength being the engine-wide constant alpha = 100 that the metadata records,
\* independently of the coefficient's original value.
C19_AddsAlphaTimesCell ==
    embed.called =>
        \A b \in Blocks(embed.img) :
            Marked(b) => Raise10(b) = 10 * alpha * PayloadAt(embed.img, embed.wm, b)

\* beside C19: what is added is the smaller of alpha / 2 times the cell and a fifth
\* of the coefficient
AddsHalfAlphaCapped ==
    embed.called =>
        \A b \in Blocks(embed.img) :
            Marked(b) =>
                \/ Raise10(b) = 5 * alpha * PayloadAt(embed.img, embed.wm, b)
                   /\ 5 * Raise10(b) <= embed.before.ll10[b]
                \/ 5 * Raise10(b) = embed.before.ll10[b]
                   /\ Raise10(b) <= 5 * alpha * PayloadAt(embed.img, embed.wm, b)

\* a coefficient of 200 (a grey block) with the payload cell 255 was raised by 40, a
\* fifth of it, and the equal cell of a black block by nothing
C19_Witness ==
    /\ embed.called
    /\ \E b, c \in Blocks(embed.img) :
           /\ Marked(b) /\ Marked(c)
           /\ PayloadAt(embed.img, embed.wm, b) = 255
           /\ PayloadAt(embed.img, embed.wm, c) = 255
           /\ embed.before.ll10[b] = 2000 /\ Raise10(b) = 400
           /\ embed.before.ll10[c] = 0 /\ Raise10(c) = 0

(* ---------------- C20 ---------------- *)
\* C20: the embedding step never lowers a low-frequency coefficient and leaves
\* unchanged every coefficient whose payload cell is zero, every coefficient outside
\* the centred window and all detail sub-bands, for every carrier with non-negative
\* pixel values and every payload matrix.
C20_OnlyRaisesMarkedCoefficients ==
    embed.called =>
        /\ \A b \in Blocks(embed.img) :
               /\ Raise10(b) >= 0
               /\ ~Marked(b) => Raise10(b) = 0
        /\ embed.after.cH2 = embed.before.cH2
        /\ embed.after.cV2 = embed.before.cV2
        /\ embed.after.cD2 = embed.before.cD2

\* the step has raised a coefficient, left one with a zero cell and one outside the
\* window at their nonzero values, and the carrier has nonzero detail coefficients
C20_Witness ==
    /\ embed.called
    /\ \E b, z, o \in Blocks(embed.img) :
           /\ Marked(b) /\ Raise10(b) > 0
           /\ InWindow(embed.img, embed.wm, z)
           /\ PayloadAt(embed.img, embed.wm, z) = 0
           /\ embed.before.ll10[z] > 0 /\ Raise10(z) = 0
           /\ ~InWindow(embed.img, embed.wm, o)
           /\ embed.before.ll10[o] > 0 /\ Raise10(o) = 0
    /\ \E b \in Blocks(embed.img) : embed.after.cV2[b] # 0

(* ---------------- C21 ---------------- *)
\* C21: for every sub-band size (height and width >= 1) and every square payload
\* matrix of side 1..32, the embedder scales the matrix with one factor so that its
\* resized height and width do not exceed the sub-band's, places it at the offsets
\* (ll_h - h) // 2 and (ll_w - w) // 2, and every coefficient index it writes lies
\* inside the sub-band, the window being centred.
C21_WindowFitsAndIsCentred ==
    embed.called =>
        LET w == embed.window
        IN  /\ w.new_h = w.new_w
            /\ w.new_h >= 1 /\ w.new_h <= embed.ll_h /\ w.new_w <= embed.ll_w
            /\ w.h_offset = (embed.ll_h - w.new_h) \div 2
            /\ w.w_offset = (embed.ll_w - w.new_w) \div 2
            /\ w.written = (w.h_offset .. w.h_offset + w.new_h - 1)
                           \X (w.w_offset .. w.w_offset + w.new_w - 1)
            /\ w.written \subseteq (0 .. embed.ll_h - 1) \X (0 .. embed.ll_w - 1)
            \* centred: the margins on either side differ by one at most
            /\ (embed.ll_h - w.new_h) - 2 * w.h_offset \in {0, 1}
            /\ (embed.ll_w - w.new_w) - 2 * w.w_offset \in {0, 1}

\* a matrix of side 22 in a sub-band of 15 x 16: the double product rounds down, the
\* window has side 14 and lies at the offsets 0 and 1
C21_Witness ==
    /\ embed.called
    /\ embed.side = 22 /\ embed.ll_h = 15 /\ embed.ll_w = 16
    /\ embed.window.new_h = 14
    /\ embed.window.h_offset = 0 /\ embed.window.w_offset = 1
    /\ Cardinality(embed.window.written) = 196

(* ---------------- C22 ---------------- *)
\* blind extraction has located its window in the sub-band in which embed placed a
\* matrix of side 32
BothWindows == embed.called /\ embed.side = MatrixSize /\ last # NoCall /\ last.op = "blind_window"

\* C22 as stated: for every carrier size, the window of low-frequency cells read by
\* blind extraction (side min(32, h // 2, w // 2), centred) is the same set of cells,
\* at the same offsets, as the window into which embed wrote a side-32 payload matrix.
C22_ReadWindowIsEmbedWindow ==
    BothWindows =>
        /\ last.window.read = embed.window.written
        /\ last.window.h_offset = embed.window.h_offset
        /\ last.window.w_offset = embed.window.w_offset

\* beside C22: the two windows are the same when the sub-band is at least 64 x 64
SameWindowInLargeBand ==
    (BothWindows /\ embed.ll_h >= 2 * MatrixSize /\ embed.ll_w >= 2 * MatrixSize) =>
        /\ last.window.read = embed.window.written
        /\ last.window.h_offset = embed.window.h_offset
        /\ last.window.w_offset = embed.window.w_offset

\* a sub-band of 16 x 16: embed wrote all 256 cells from offset 0, the blind step
\* reads the 64 cells of the 8 x 8 window at offset 4
C22_Witness ==
    /\ BothWindows
    /\ embed.ll_h = 16 /\ embed.ll_w = 16
    /\ Cardinality(embed.window.written) = 256 /\ embed.window.h_offset = 0
    /\ Cardinality(last.window.read) = 64 /\ last.window.h_offset = 4
    /\ last.window.read # embed.window.written

(* ---------------- C23 ---------------- *)
\* the sum of the squared values of a window, as numbers
RECURSIVE TrueSumSquares(_, _)
TrueSumSquares(wm, cells) ==
    IF cells = {} THEN 0
    ELSE LET c == CHOOSE x \in cells : TRUE
         IN  wm[c] * wm[c] + TrueSumSquares(wm, cells \ {c})
\* at least 25% of the cells are nonzero / the mean squared value is above the floor
QuarterNonZero(wm) == 4 * CountNonZero(wm) >= Cardinality(DOMAIN wm)
MeanSquareAboveFloor(wm) ==
    TrueSumSquares(wm, DOMAIN wm) > SignalFloor * Cardinality(DOMAIN wm)

NoDetectionBelowThresholds ==
    (last.decided /\ last.detected) =>
        (QuarterNonZero(last.extracted_wm) /\ MeanSquareAboveFloor(last.extracted_wm))

RecoveryReturned == last # NoCall /\ last.op \in {"extract_watermark", "extract_watermark_image"}
\* its detection came from blind extraction: the locator names the image that the
\* blind step saved
BlindDetection ==
    /\ RecoveryReturned
    /\ last.result.detected
    /\ last.result.watermark_image_url # NoUrl
    /\ last.result.watermark_image_url[2] \in {"extracted_watermark_", "extracted_wm_"}
\* its detection came from a metadata record
MetadataDetection == RecoveryReturned /\ last.result.detected /\ ~BlindDetection

\* C24 as stated: every result of extract_watermark or extract_watermark_image has a
\* confidence in [0, 1]; every detection by blind extraction has the confidence
\* min(0.8, nonzeroCount / totalCells), strictly below that of every metadata-based
\* detection (>= 0.90); every non-detection has confidence 0.
C24_ConfidenceBySource ==
    RecoveryReturned =>
        /\ last.result.confidence \in 0 .. 100
        /\ BlindDetection =>
               /\ last.result.confidence = BlindConfidence(Imread(Disk, last.image_path))
               /\ last.result.confidence < 90
        /\ MetadataDetection => last.result.confidence >= 90
        /\ ~last.result.detected => last.result.confidence = 0

\* beside C24: all of it but the formula of the blind confidence
ConfidenceRanges ==
    RecoveryReturned =>
        /\ last.result.confidence \in 0 .. 100
        /\ BlindDetection => last.result.confidence <= 80
        /\ MetadataDetection => last.result.confidence >= 90
        /\ ~last.result.detected => last.result.confidence = 0

\* extract_watermark_image detected by blind extraction in the white image, every
\* cell of whose window is nonzero, and returned the confidence 0.7
C24_Witness ==
    /\ RecoveredImage(BrightCarrier)
    /\ BlindDetection
    /\ NonZeroPixels(Imread(Disk, BrightCarrier)) = Cardinality(Window(Imread(Disk, BrightCarrier)))
    /\ BlindConfidence(Imread(Disk, BrightCarrier)) = 80
    /\ last.result.confidence = 70

(* ---------------- C25 ---------------- *)
\* where the claim puts the bytes b in a matrix of side size: cell c holds byte
\* number c[1] - start (from 0) when it is on the diagonal and that byte exists
PlacedByte(b, size, c) ==
    LET n == Len(b)
        start == IF n < size THEN (size - n) \div 2 ELSE 0
        i == c[1] - start
    IN  IF c[1] = c[2] /\ i >= 0 /\ i < n /\ i < size THEN b[i + 1] ELSE 0

\* C25: for a text of n UTF-8 bytes and the side size = min(maxSize, 32): if
\* n < size, byte i is at cell (c + i, c + i) with c = (size - n) // 2; if n >= size,
\* byte i is at cell (i, i) for i < size and the bytes from index size on are dropped
\* without error; every other cell is zero; and encoding the same text twice yields
\* the same matrix and the same truncation.
C25_BytesOnCentredDiagonal ==
    /\ embed.called =>
           /\ embed.encoded.size = Min(embed.max_size, 32)
           /\ DOMAIN embed.encoded.watermark
                  = (0 .. embed.encoded.size - 1) \X (0 .. embed.encoded.size - 1)
           /\ \A c \in DOMAIN embed.encoded.watermark :
                  embed.encoded.watermark[c]
                      = PlacedByte(Utf8(embed.watermark_text), embed.encoded.size, c)
    /\ (embed.called /\ last # NoCall) => last.encoded = embed.encoded

\* a text of five bytes was encoded twice with max_size 4: the diagonal holds the
\* first four bytes, the fifth is dropped, and text_length is still 5
C25_Witness ==
    /\ embed.called
    /\ last # NoCall
    /\ embed.watermark_text = <<"a", Quote, "a", Quote, "a">>
    /\ embed.max_size = 4
    /\ \A i \in 0 .. 3 : embed.encoded.watermark[<<i, i>>] = Ord(embed.watermark_text[i + 1])
    /\ embed.encoded.text_length = 5
    /\ last.encoded = embed.encoded

(* ---------------- C26 ---------------- *)
\* the last step was a request to the recovery endpoint
Answered == last # NoCall /\ last.op = "extract_invisible_watermark"
\* the first pass reported a text payload whose text is empty
EmptyTextReported ==
    /\ last.first.success
    /\ last.first.detected
    /\ last.first.watermark_type = "text"
    /\ last.first.watermark_text = <<>>
\* the second attempt detected an image whose file exists
SecondFoundImage ==
    /\ last.second # <<>>
    /\ last.second[1].detected
    /\ last.second[1].watermark_image_url # NoUrl
    /\ Exists(Disk, FileOf(last.second[1].watermark_image_url))

\* C26: when the first recovery pass reports a text payload whose text is empty, the
\* endpoint runs a second attempt for an image payload (extract_watermark_image); if
\* that detects an image whose file exists the final result is detected, of kind
\* image, with that locator, otherwise it is detected, of kind text, with an empty
\* text; the second attempt is made in no other case.
C26_SecondAttemptForEmptyText ==
    Answered =>
        /\ (last.second # <<>>) <=> EmptyTextReported
        /\ (EmptyTextReported /\ SecondFoundImage) =>
               /\ last.result.detected
               /\ last.result.watermark_type = "image"
               /\ last.result.watermark_image_url = last.second[1].watermark_image_url
        /\ (EmptyTextReported /\ ~SecondFoundImage) =>
               /\ last.result.detected
               /\ last.result.watermark_type = "text"
               /\ last.result.watermark_text = <<>>
               /\ last.result.watermark_image_url = NoUrl

\* the upload carried the record of an empty text: the second attempt ran and found
\* an image in the coefficients, which the endpoint returned
C26_Witness ==
    /\ Answered
    /\ EmptyTextReported
    /\ SecondFoundImage
    /\ last.result.watermark_type = "image"
    /\ last.result.watermark_image_url[2] = "extracted_wm_"

\* the same upload from a black carrier: the second attempt found nothing and the
\* endpoint returned the empty text
EmptyTextKept ==
    /\ Answered
    /\ EmptyTextReported
    /\ ~SecondFoundImage
    /\ last.result.watermark_type = "text"

(* ---------------- C27 ---------------- *)
\* the locators of the copies that the embed behind the suspect image p created
OwnCopies(p) == {TrailerFields(p)["watermark_image_url"], TrailerFields(p)["backup_image_url"]}
\* the endpoint answered a request for p with an image locator
ImageAnswered(p) ==
    /\ Requested(p)
    /\ last.result.detected
    /\ last.result.watermark_type = "image"
    /\ last.result.watermark_image_url # NoUrl

\* C27 as stated: after any sequence of embeds with different reference images
\* followed by deletions of display copies, the image locator the recovery endpoint
\* returns for a suspect image refers to a display copy (original or backup) created
\* by the embed that produced that suspect image, never to a copy of another embed.
C27_OwnCopyReturned ==
    \A p \in TwoOutputs :
        (ImageAnswered(p) /\ TrailerIntact(p) /\ NamesBothCopies(TrailerFields(p)))
        => last.result.watermark_image_url \in OwnCopies(p)

\* the endpoint answered for the output of one embed, whose original display copy is
\* still there, with the backup copy of the other embed
C27_Witness ==
    \E p \in TwoOutputs :
        /\ ImageAnswered(p)
        /\ TrailerIntact(p)
        /\ NamesBothCopies(TrailerFields(p))
        /\ OriginalThere(TrailerFields(p))
        /\ last.result.watermark_image_url \notin OwnCopies(p)
        /\ last.result.watermark_image_url[2] = "backup_watermark_"
        /\ last.result.confidence = 90
        /\ \E q \in TwoOutputs :
               /\ q # p
               /\ TrailerIntact(q)
               /\ last.result.watermark_image_url = TrailerFields(q)["backup_image_url"]


(* ---------------- C28 ---------------- *)
\* the embed call ended with an exception
EmbedRaised == embed.called /\ embed.raised
\* an image file is at one of the paths embed_watermark generates for its output
OutputLeft == \E p \in OutputPaths : Exists(files, p)

\* C28 as stated: whenever embed_watermark raises (for a failure at any step:
\* payload preparation, transform, image write, sidecar write), no image file has
\* been left at the output path.
C28_NoOutputAfterRaise == EmbedRaised => ~OutputLeft

\* the sidecar write failed after cv2.imwrite: the call raised and the decodable
\* output image, without sidecar and without trailer, is on the disk
C28_Witness ==
    /\ EmbedRaised
    /\ embed.fail = "sidecar"
    /\ \E p \in OutputPaths :
           /\ Decodable(files, p)
           /\ ~Exists(files, MetadataPath(p))
           /\ FindMarker(files[p], 1) = 0

\* holds: a raise before cv2.imwrite (carrier not decodable, payload preparation)
\* leaves no output
NoOutputAfterEarlyRaise == (EmbedRaised /\ embed.fail # "sidecar") => ~OutputLeft


(* ---------------- C29 ---------------- *)
\* extract_watermark returned without a detection
NotDetected == last # NoCall /\ last.op = "extract_watermark" /\ ~last.result.detected

\* C29 as stated: every result of extract_watermark with detected = false carries no
\* payload: its kind is None, its image locator is None and its text is empty, on
\* every path through the sidecar, trailer and blind-extraction steps.
C29_NoPayloadWhenNotDetected ==
    NotDetected =>
        /\ last.result.watermark_type = "None"
        /\ last.result.watermark_image_url = NoUrl
        /\ last.result.watermark_text = <<>>

\* the sidecar of the output has a record of kind image, none of the copies it names
\* is left, and the result without a detection still says "image"
C29_Witness ==
    \E p \in OutputPaths :
        /\ Recovered(p)
        /\ NotDetected
        /\ last.result.success
        /\ SidecarIntact(p)
        /\ SidecarFields(p)["watermark_type"] = "image"
        /\ last.result.watermark_type = "image"
        /\ last.result.watermark_image_url = NoUrl

\* holds: a result without a detection has no text, and no locator when the suspect
\* image is an output of this engine
NoTextWhenNotDetected ==
    NotDetected =>
        /\ last.result.watermark_text = <<>>
        /\ last.image_path \in OutputPaths => last.result.watermark_image_url = NoUrl


(* ---------------- C30 ---------------- *)
\* two calls with the same arguments apart from alpha have returned an output
TwoOutputsWritten ==
    /\ embed.called
    /\ ~embed.raised
    /\ last # NoCall
    /\ last.op = "embed_watermark"
    /\ ~last.raised
\* the fields of a record that hold generated identifiers or the time of the call
GeneratedFields == {"watermark_image_url", "backup_image_url", "timestamp"}
\* two records agree apart from the generated fields
SameRecord(a, b) ==
    /\ DOMAIN a = DOMAIN b
    /\ \A k \in DOMAIN a \ GeneratedFields : a[k] = b[k]

\* C30: the alpha argument of embed_watermark (and of embed_dct_watermark) has no
\* effect: two calls that differ only in alpha raise alike, produce the same
\* watermarked pixels and the same metadata apart from generated identifiers and the
\* timestamp, and the strength recorded is always the engine constant.
C30_AlphaHasNoEffect ==
    (embed.called /\ last # NoCall /\ last.op = "embed_watermark") =>
        /\ last.raised = embed.raised
        /\ last.encoded = embed.encoded
        /\ ~last.raised =>
               LET p == embed.output_path[1]
                   q == last.output_path[1]
               IN  /\ files[p][1] = files[q][1]
                   /\ SidecarIntact(p) /\ SidecarIntact(q)
                   /\ SameRecord(SidecarFields(p), SidecarFields(q))
                   /\ SidecarFields(p)["alpha"] = alpha
                   /\ SidecarFields(q)["alpha"] = alpha
                   /\ TrailerIntact(p) /\ TrailerIntact(q)
                   /\ SameRecord(TrailerFields(p), TrailerFields(q))

\* two outputs of calls whose alpha arguments differ, with a payload that changed
\* the pixels of the carrier
C30_Witness ==
    /\ TwoOutputsWritten
    /\ embed.alpha # last.alpha
    /\ embed.output_path # last.output_path
    /\ embed.encoded # "nothing"
    /\ files[embed.output_path[1]][1] # Disk[embed.image_path][1]
    /\ files[embed.output_path[1]][1] = files[last.output_path[1]][1]

====
